---- MODULE Spec2Model ----
(***************************************************************************)
(* Model of the optimizer update engine of marian (OptimizerBase, Sgd,     *)
(* Adagrad, Adam) and of its checkpoint protocol.                          *)
(*                                                                         *)
(* Numbers.  float tensors hold fixed-point integers counting 1/FS, the    *)
(* CPU-side doubles (Adam denominators) hold integers counting 1/DS.       *)
(* float16 keeps only every F16Q-th value of float32, so a cast to the     *)
(* lower precision loses information.                                      *)
(***************************************************************************)
EXTENDS Integers, Sequences, FiniteSets, TLC

\* ------------------------------------------------------------------ bounds
MaxUpdates == 2
MaxCheckpoints == 2
MaxHooks == 2
MaxRuleUpdates == 3
MaxParams == 5
MaxEpochs == 2
NumShards == 2
TotalElements == 3

Shards == 1..NumShards
GradVals == {2000, 3000}
CheckpointGrads == {2000}
UninitVals == {0, 7}
FS == 1000
DS == 10000
F16Q == 8

\* --------------------------------------------------------- numeric helpers
RECURSIVE isqrtIter(_, _, _)
isqrtIter(n, lo, hi) ==
  IF lo >= hi THEN lo
  ELSE LET mid == (lo + hi + 1) \div 2
       IN IF mid * mid <= n THEN isqrtIter(n, mid, hi)
                            ELSE isqrtIter(n, lo, mid - 1)

isqrt(n) == isqrtIter(n, 0, 46340)

mulF(a, b) == (a * b) \div FS
divF(a, b) == (a * FS) \div b
sqrtF(a) == isqrt(a * FS)
maxF(a, b) == IF a >= b THEN a ELSE b

RECURSIVE SumSeq(_)
SumSeq(s) == IF s = <<>> THEN 0 ELSE Head(s) + SumSeq(Tail(s))

RECURSIVE Concat(_)
Concat(ss) == IF ss = <<>> THEN <<>> ELSE Head(ss) \o Concat(Tail(ss))

\* ------------------------------------------------------------------ tensors
sizeOf(type) ==
  CASE type = "float16" -> 2
    [] type = "float32" -> 4
    [] type = "float64" -> 8

NullTensor == [type |-> "null", shape |-> 0, memory |-> 0, data |-> <<>>]

IsNull(t) == t.type = "null"

\* TensorAllocator::allocate(t, {1, elements}, type): a tensor over a fresh
\* memory piece; the memory is not initialised (fill is what it happens to hold)
allocate(elements, type, fill) ==
  [type |-> type, shape |-> elements, memory |-> elements * sizeOf(type),
   data |-> [k \in 1..elements |-> fill]]

size(t) == t.shape

\* TensorBase::New(mem, shape, backend): the constructor without a type
\* argument declares the elements float32
NewTensor(memory, shape, data) ==
  [type |-> "float32", shape |-> shape, memory |-> memory, data |-> data]

\* t->subtensor(offset, n): a tensor over the n elements of t's memory that
\* start at element offset
subtensor(t, offset, n) ==
  NewTensor(sizeOf(t.type) * n, n, SubSeq(t.data, offset + 1, offset + n))

\* one element converted to the precision of `type`
Convert(type, v) == IF type = "float16" THEN (v \div F16Q) * F16Q ELSE v

\* CopyCast(dst, src): element-wise converting copy into dst
CopyCast(dst, src) ==
  [dst EXCEPT !.data = [k \in 1..Len(dst.data) |-> Convert(dst.type, src.data[k])]]

\* t->set(value): fill
setValue(t, v) == [t EXCEPT !.data = [k \in 1..Len(t.data) |-> v]]

\* ||t||_2
L2Norm(data) == sqrtF(SumSeq([k \in 1..Len(data) |-> mulF(data[k], data[k])]))

\* Clipper<Norm>::clip(t): rescale to norm c when the norm reaches c; the
\* result is stored in the precision of t
clip(c, t) ==
  LET l2Norm == L2Norm(t.data)
  IN IF l2Norm >= c
     THEN [t EXCEPT !.data = [k \in 1..Len(t.data) |->
                                Convert(t.type, mulF(divF(c, l2Norm), t.data[k]))]]
     ELSE t

\* --------------------------------------------------------------- allocators
NullAlloc == [live |-> FALSE, reserved |-> 0, used |-> 0]

\* TensorAllocator::reserveExact(bytes)
reserveExact(a, bytes) == [live |-> TRUE, reserved |-> bytes, used |-> a.used]

\* bookkeeping of TensorAllocator::allocate
carve(a, bytes) == [a EXCEPT !.used = a.used + bytes]

\* --------------------------------------------------------------- optimizers
mbSizeNotProvided == 2147483647

Algs == {"sgd", "adagrad", "adam"}

\* caller-owned tensors of one shard (its graph's values and gradients, one
\* pair per precision) and the two tensors carved out of the shadow arena
HeapNames == {"P16", "G16", "P32", "G32", "PM", "GD"}

PName(type) == IF type = "float16" THEN "P16" ELSE "P32"
GName(type) == IF type = "float16" THEN "G16" ELSE "G32"

\* number of parameters owned by shard i (the last shard takes the rest)
ShardSize(i) ==
  LET per == (TotalElements + NumShards - 1) \div NumShards
      rest == TotalElements - (i - 1) * per
  IN IF rest >= per THEN per ELSE IF rest > 0 THEN rest ELSE 0

\* OptimizerBase, Adagrad and Adam members right after construction
NewOptimizer(alg, conf) ==
  [alg |-> alg,
   eta_ |-> conf.eta,
   refMBWordsParam_ |-> conf.refMBWords,
   costScale_ |-> conf.costScale,
   batchesSeen_ |-> 0,
   clipper_ |-> conf.clipNorm,
   mvAvg_ |-> conf.mvAvg,
   optimizerType_ |-> "float32",
   optAlloc_ |-> NullAlloc,
   avg_ |-> NullTensor,
   pm_ |-> "null",
   gd_ |-> "null",
   eps_ |-> 1,
   alloc_ |-> NullAlloc,
   gt_ |-> NullTensor,
   beta1_ |-> 900,
   beta2_ |-> 900,
   w_ |-> 0,
   denom1_ |-> 0,
   denom2_ |-> 0,
   mt_ |-> NullTensor,
   vt_ |-> NullTensor]

Entry(step, what, a, b, data) ==
  [step |-> step, what |-> what, a |-> a, b |-> b, data |-> data]

Logged(m, e) == [m EXCEPT !.log = Append(m.log, e)]

\* smallest positive value of a type, NumericLimits<float>(type).min
FloatMin(type) == IF type = "float16" THEN F16Q ELSE 1

\* ---- update rules: m is the activation of update(), m.o the optimizer,
\* ---- m.h the tensors of its shard; pm_ and gd_ name the tensors handed in
SgdUpdateImpl(m, actualMBSize, refMBWords) ==
  LET p == m.h[m.o.pm_]
      g == m.h[m.o.gd_]
  IN [m EXCEPT !.h[m.o.pm_].data =
        [k \in 1..size(p) |-> p.data[k] - mulF(m.o.eta_, g.data[k])]]

\* element k of t as an element-wise operation reads it: beyond the end of
\* the tensor it reads whatever the memory holds
At(t, k, junk) == IF k <= Len(t.data) THEN t.data[k] ELSE junk

\* the running sum overwritten by the square of the current gradient
AdagradUpdateImplNoSum(m, actualMBSize, refMBWords) ==
  IF actualMBSize # refMBWords THEN [m EXCEPT !.abort = "adagrad-mbsize"]
  ELSE
  LET p == m.h[m.o.pm_]
      g == m.h[m.o.gd_]
      fresh == IsNull(m.o.gt_)
      alloc1 == IF fresh THEN carve(reserveExact(m.o.alloc_, p.memory), p.memory)
                         ELSE m.o.alloc_
      gt0 == IF fresh THEN setValue(allocate(size(p), p.type, m.fill), 0) ELSE m.o.gt_
      gt1 == [gt0 EXCEPT !.data = [k \in 1..size(gt0) |-> mulF(At(g, k, m.fill), At(g, k, m.fill))]]
      eps == maxF(FloatMin(p.type) * 2, m.o.eps_)
      p1 == [k \in 1..size(p) |->
               p.data[k] - mulF(divF(m.o.eta_, sqrtF(At(gt1, k, m.fill)) + eps), At(g, k, m.fill))]
  IN [m EXCEPT !.o.alloc_ = alloc1, !.o.gt_ = gt1, !.o.eps_ = eps,
               !.h[m.o.pm_].data = p1]

\* the rule applied whatever the actual minibatch size is
AdagradUpdateImplAnySize(m, actualMBSize, refMBWords) ==
  LET p == m.h[m.o.pm_]
      g == m.h[m.o.gd_]
      fresh == IsNull(m.o.gt_)
      alloc1 == IF fresh THEN carve(reserveExact(m.o.alloc_, p.memory), p.memory)
                         ELSE m.o.alloc_
      gt0 == IF fresh THEN setValue(allocate(size(p), p.type, m.fill), 0) ELSE m.o.gt_
      gt1 == [gt0 EXCEPT !.data =
                [k \in 1..size(gt0) |-> gt0.data[k] + mulF(At(g, k, m.fill), At(g, k, m.fill))]]
      eps == maxF(FloatMin(p.type) * 2, m.o.eps_)
      p1 == [k \in 1..size(p) |->
               p.data[k] - mulF(divF(m.o.eta_, sqrtF(At(gt1, k, m.fill)) + eps), At(g, k, m.fill))]
  IN [m EXCEPT !.o.alloc_ = alloc1, !.o.gt_ = gt1, !.o.eps_ = eps,
               !.h[m.o.pm_].data = p1]

AdagradUpdateImpl(m, actualMBSize, refMBWords) ==
  IF actualMBSize # refMBWords THEN [m EXCEPT !.abort = "adagrad-mbsize"]
  ELSE
  LET p == m.h[m.o.pm_]
      g == m.h[m.o.gd_]
      fresh == IsNull(m.o.gt_)
      alloc1 == IF fresh THEN carve(reserveExact(m.o.alloc_, p.memory), p.memory)
                         ELSE m.o.alloc_
      gt0 == IF fresh THEN setValue(allocate(size(p), p.type, m.fill), 0) ELSE m.o.gt_
      gt1 == [gt0 EXCEPT !.data =
                [k \in 1..size(gt0) |-> gt0.data[k] + mulF(At(g, k, m.fill), At(g, k, m.fill))]]
      eps == maxF(FloatMin(p.type) * 2, m.o.eps_)
      p1 == [k \in 1..size(p) |->
               p.data[k] - mulF(divF(m.o.eta_, sqrtF(At(gt1, k, m.fill)) + eps), At(g, k, m.fill))]
  IN [m EXCEPT !.o.alloc_ = alloc1, !.o.gt_ = gt1, !.o.eps_ = eps,
               !.h[m.o.pm_].data = p1]

\* the denominators set to 1 - beta in every update, without the recursion
AdamUpdateImplNoRecursion(m, actualMBSize, refMBWords) ==
  LET p == m.h[m.o.pm_]
      g == m.h[m.o.gd_]
      fresh == IsNull(m.o.mt_)
      bytes == 2 * size(p) * sizeOf(p.type)
      alloc1 == IF fresh THEN carve(reserveExact(m.o.alloc_, bytes), bytes)
                         ELSE m.o.alloc_
      mt0 == IF fresh THEN setValue(allocate(size(p), p.type, m.fill), 0) ELSE m.o.mt_
      vt0 == IF fresh THEN setValue(allocate(size(p), p.type, m.fill), 0) ELSE m.o.vt_
      T == actualMBSize
      Tref == refMBWords
      eta == (m.o.eta_ * T) \div Tref
      beta1 == m.o.beta1_
      beta2 == m.o.beta2_
      decay == m.o.w_
      denom1 == ((FS - beta1) * DS) \div FS
      denom2 == ((FS - beta2) * DS) \div FS
      mt1 == [mt0 EXCEPT !.data = [k \in 1..size(mt0) |->
                mulF(beta1, mt0.data[k]) + mulF((FS - beta1) \div T, At(g, k, m.fill))]]
      vt1 == [vt0 EXCEPT !.data = [k \in 1..size(vt0) |->
                mulF(beta2, vt0.data[k])
                  + mulF(((FS - beta2) \div T) \div T, mulF(At(g, k, m.fill), At(g, k, m.fill)))]]
      etaf == eta
      denom1f == (denom1 * FS) \div DS
      denom2f == (denom2 * FS) \div DS
      decayf == decay
      p1 == [k \in 1..size(p) |->
               p.data[k] - mulF(etaf,
                  divF(divF(At(mt1, k, m.fill), denom1f),
                       sqrtF(divF(At(vt1, k, m.fill), denom2f)) + m.o.eps_)
                  + mulF(decayf, p.data[k]))]
  IN [m EXCEPT !.o.alloc_ = alloc1, !.o.mt_ = mt1, !.o.vt_ = vt1,
               !.o.denom1_ = denom1, !.o.denom2_ = denom2,
               !.h[m.o.pm_].data = p1]

AdamUpdateImpl(m, actualMBSize, refMBWords) ==
  LET p == m.h[m.o.pm_]
      g == m.h[m.o.gd_]
      fresh == IsNull(m.o.mt_)
      bytes == 2 * size(p) * sizeOf(p.type)
      alloc1 == IF fresh THEN carve(reserveExact(m.o.alloc_, bytes), bytes)
                         ELSE m.o.alloc_
      mt0 == IF fresh THEN setValue(allocate(size(p), p.type, m.fill), 0) ELSE m.o.mt_
      vt0 == IF fresh THEN setValue(allocate(size(p), p.type, m.fill), 0) ELSE m.o.vt_
      T == actualMBSize
      Tref == refMBWords
      eta == (m.o.eta_ * T) \div Tref
      beta1 == m.o.beta1_
      beta2 == m.o.beta2_
      decay == m.o.w_
      denom1 == ((beta1 * m.o.denom1_) \div FS) + (((FS - beta1) * DS) \div FS)
      denom2 == ((beta2 * m.o.denom2_) \div FS) + (((FS - beta2) * DS) \div FS)
      mt1 == [mt0 EXCEPT !.data = [k \in 1..size(mt0) |->
                mulF(beta1, mt0.data[k]) + mulF((FS - beta1) \div T, At(g, k, m.fill))]]
      vt1 == [vt0 EXCEPT !.data = [k \in 1..size(vt0) |->
                mulF(beta2, vt0.data[k])
                  + mulF(((FS - beta2) \div T) \div T, mulF(At(g, k, m.fill), At(g, k, m.fill)))]]
      etaf == eta
      denom1f == (denom1 * FS) \div DS
      denom2f == (denom2 * FS) \div DS
      decayf == decay
      p1 == [k \in 1..size(p) |->
               p.data[k] - mulF(etaf,
                  divF(divF(At(mt1, k, m.fill), denom1f),
                       sqrtF(divF(At(vt1, k, m.fill), denom2f)) + m.o.eps_)
                  + mulF(decayf, p.data[k]))]
  IN [m EXCEPT !.o.alloc_ = alloc1, !.o.mt_ = mt1, !.o.vt_ = vt1,
               !.o.denom1_ = denom1, !.o.denom2_ = denom2,
               !.h[m.o.pm_].data = p1]

updateImpl(m, actualMBSize, refMBWords) ==
  CASE m.o.alg = "sgd" -> SgdUpdateImpl(m, actualMBSize, refMBWords)
    [] m.o.alg = "adagrad" -> AdagradUpdateImpl(m, actualMBSize, refMBWords)
    [] m.o.alg = "adam" -> AdamUpdateImpl(m, actualMBSize, refMBWords)

\* ExponentialSmoothing::updateAvgParams: blend the accumulator half-way
\* towards the parameters
updateAvgParams(avg, params, batches, actualBatchSize) ==
  [avg EXCEPT !.data = [k \in 1..size(avg) |->
      (avg.data[k] + params.data[k]) \div 2]]

\* ------------------------------------------------- OptimizerBase::update
\* Each step works on the activation m of one update() call and is skipped
\* once the call has aborted.

\* the arena reserved for the accumulator alone, with and without casting
allocateAvgReservesOne(m) ==
  IF m.abort # "no" \/ ~m.o.mvAvg_ \/ m.o.optAlloc_.live THEN m
  ELSE
  LET one == m.elements * sizeOf(m.o.optimizerType_)
      m1 == [m EXCEPT !.o.optAlloc_ = carve(reserveExact(m.o.optAlloc_, one), one),
                      !.o.avg_ = allocate(m.elements, m.o.optimizerType_, m.fill)]
  IN Logged(Logged(m1, Entry("reserveExact", "optAlloc_", one, 0, <<>>)),
            Entry("allocate", "avg_", one, 0, <<>>))

\* if(mvAvg_) { if(!optAlloc_) { reserve; allocate avg_ } }
allocateAvg(m) ==
  IF m.abort # "no" \/ ~m.o.mvAvg_ \/ m.o.optAlloc_.live THEN m
  ELSE
  LET numAllocateShards == IF m.castOptimizerType THEN 3 ELSE 1
      bytes == numAllocateShards * m.elements * sizeOf(m.o.optimizerType_)
      one == m.elements * sizeOf(m.o.optimizerType_)
      m1 == [m EXCEPT !.o.optAlloc_ = carve(reserveExact(m.o.optAlloc_, bytes), one),
                      !.o.avg_ = allocate(m.elements, m.o.optimizerType_, m.fill)]
  IN Logged(Logged(m1, Entry("reserveExact", "optAlloc_", bytes, 0, <<>>)),
            Entry("allocate", "avg_", one, 0, <<>>))

\* if(castOptimizerType) { reserve; allocate pm_, gd_; CopyCast } else alias;
\* create says whether the master copy and the gradient shard are created
castParamsAndGradsIf(m, create) ==
  IF m.abort # "no" THEN m
  ELSE IF m.castOptimizerType THEN
    LET one == m.elements * sizeOf(m.o.optimizerType_)
        m1 == IF ~m.o.optAlloc_.live
              THEN Logged([m EXCEPT !.o.optAlloc_ = reserveExact(m.o.optAlloc_, 2 * one)],
                          Entry("reserveExact", "optAlloc_", 2 * one, 0, <<>>))
              ELSE m
        m2 == IF create
              THEN LET a == [m1 EXCEPT
                               !.o.optAlloc_ = carve(carve(m1.o.optAlloc_, one), one),
                               !.o.pm_ = "PM",
                               !.o.gd_ = "GD",
                               !.h["PM"] = CopyCast(allocate(m.elements, m.o.optimizerType_, m.fill),
                                                    m1.h[m.params]),
                               !.h["GD"] = allocate(m.elements, m.o.optimizerType_, m.fill)]
                   IN Logged(Logged(Logged(a,
                        Entry("allocate", "pm_", one, 0, <<>>)),
                        Entry("allocate", "gd_", one, 0, <<>>)),
                        Entry("CopyCast", "pm_<-params", 0, 0, <<>>))
              ELSE m1
        m3 == [m2 EXCEPT !.h[m2.o.gd_] = CopyCast(m2.h[m2.o.gd_], m2.h[m.grads])]
    IN Logged(m3, Entry("CopyCast", "gd_<-grads", 0, 0, <<>>))
  ELSE [m EXCEPT !.o.pm_ = m.params, !.o.gd_ = m.grads]

\* the master copy re-created and re-read from the parameters in every call
castParamsAndGradsEveryCall(m) == castParamsAndGradsIf(m, TRUE)

castParamsAndGrads(m) == castParamsAndGradsIf(m, m.o.pm_ = "null")

\* if(costScale_ != 1.f) Element(_1 = _1 / costScale_, gd_)
reverseCostScale(m) ==
  IF m.abort # "no" \/ m.o.costScale_ = FS THEN m
  ELSE LET gd == m.h[m.o.gd_]
       IN Logged([m EXCEPT !.h[m.o.gd_].data =
                     [k \in 1..size(gd) |-> divF(gd.data[k], m.o.costScale_)]],
                 Entry("costScale", "gd_", m.o.costScale_, 0, <<>>))

\* if(clipper_) clipper_->clip(grads)
clipGradients(m) ==
  IF m.abort # "no" \/ m.o.clipper_ = 0 THEN m
  ELSE Logged([m EXCEPT !.h[m.grads] = clip(m.o.clipper_, m.h[m.grads])],
              Entry("clip", "grads", m.o.clipper_, 0, <<>>))

\* updateImpl(pm_, gd_, mbSize, refMBWords)
callUpdateImpl(m) ==
  IF m.abort # "no" THEN m
  ELSE updateImpl(Logged(m, Entry("updateImpl", m.o.gd_, m.mbSize, m.refMBWords,
                                  m.h[m.o.gd_].data)),
                  m.mbSize, m.refMBWords)

\* if(mvAvg_) updateAvgParams(avg_, pm_, batchesSeen_, mbSize)
callUpdateAvgParams(m) ==
  IF m.abort # "no" \/ ~m.o.mvAvg_ THEN m
  ELSE Logged([m EXCEPT !.o.avg_ = updateAvgParams(m.o.avg_, m.h[m.o.pm_],
                                                   m.o.batchesSeen_, m.mbSize)],
              Entry("updateAvgParams", "avg_", m.o.batchesSeen_, m.mbSize, <<>>))

\* if(castOptimizerType) CopyCast(params, pm_)
castBack(m) ==
  IF m.abort # "no" \/ ~m.castOptimizerType THEN m
  ELSE Logged([m EXCEPT !.h[m.params] = CopyCast(m.h[m.params], m.h[m.o.pm_])],
              Entry("CopyCast", "params<-pm_", 0, 0, <<>>))

\* update() returning without the final synchronize
synchronizeSkipped(m) == m

\* params->getBackend()->synchronize()
synchronize(m) ==
  IF m.abort # "no" THEN m
  ELSE Logged(m, Entry("synchronize", "", 0, 0, <<>>))

\* the actual size forced to 1 only when the caller gave none
mbSizesDefaultOnly(o, mbSizeArg) ==
  IF o.refMBWordsParam_ = 0
  THEN [refMBWords |-> 1,
        mbSize |-> IF mbSizeArg = mbSizeNotProvided THEN 1 ELSE mbSizeArg,
        missing |-> FALSE]
  ELSE [refMBWords |-> o.refMBWordsParam_, mbSize |-> mbSizeArg,
        missing |-> mbSizeArg = mbSizeNotProvided]

\* the sizes update() works with: without a reference size both are 1,
\* with one the caller has to provide the actual size
mbSizes(o, mbSizeArg) ==
  IF o.refMBWordsParam_ = 0
  THEN [refMBWords |-> 1, mbSize |-> 1, missing |-> FALSE]
  ELSE [refMBWords |-> o.refMBWordsParam_, mbSize |-> mbSizeArg,
        missing |-> mbSizeArg = mbSizeNotProvided]

\* the locals of one update() call
activation(o, h, params, grads, mbSizeArg, fill) ==
  LET s == mbSizes(o, mbSizeArg)
  IN [o |-> o, h |-> h, log |-> <<>>, abort |-> "no",
      params |-> params, grads |-> grads, fill |-> fill,
      refMBWords |-> s.refMBWords, mbSize |-> s.mbSize, missing |-> s.missing,
      castOptimizerType |-> h[params].type # o.optimizerType_,
      elements |-> size(h[params])]

\* the missing size detected only after the buffers were set up
updateChecksLate(o, h, params, grads, mbSizeArg, fill) ==
  LET m == activation(o, h, params, grads, mbSizeArg, fill)
  IN IF m.missing
     THEN [castParamsAndGrads(allocateAvg(m)) EXCEPT !.abort = "mbSize"]
     ELSE synchronize(castBack(callUpdateAvgParams(callUpdateImpl(
            clipGradients(reverseCostScale(castParamsAndGrads(allocateAvg(m))))))))

\* update(params, grads, mbSize) of optimizer o on the tensors h of its shard;
\* params and grads name the tensors handed in, fill is what fresh memory holds
update(o, h, params, grads, mbSizeArg, fill) ==
  LET m == activation(o, h, params, grads, mbSizeArg, fill)
  IN IF m.missing
     THEN [m EXCEPT !.abort = "mbSize"]
     ELSE synchronize(castBack(callUpdateAvgParams(callUpdateImpl(
            clipGradients(reverseCostScale(castParamsAndGrads(allocateAvg(m))))))))

\* ------------------------------------------------------- checkpoint items
\* a float as the 4 bytes it occupies (little endian, two's complement)
FloatToBytes(v) ==
  LET u == IF v >= 0 THEN v ELSE (v + 2147483647) + 1
  IN <<u % 256, (u \div 256) % 256, (u \div 65536) % 256,
       (u \div 16777216) + (IF v >= 0 THEN 0 ELSE 128)>>

BytesToFloat(b) ==
  LET u == b[1] + 256 * b[2] + 65536 * b[3] + 16777216 * (b[4] % 128)
  IN IF b[4] >= 128 THEN (u - 2147483647) - 1 ELSE u

\* a double as its 8 bytes: the float bytes, sign-extended
DoubleToBytes(v) ==
  LET ext == IF v >= 0 THEN 0 ELSE 255
  IN FloatToBytes(v) \o <<ext, ext, ext, ext>>

BytesToDouble(b) == BytesToFloat(SubSeq(b, 1, 4))

\* std::copy((char*)v.data(), (char*)(v.data() + v.size()), item.bytes.begin())
FloatsToBytes(v) == Concat([k \in 1..Len(v) |-> FloatToBytes(v[k])])
DoublesToBytes(v) == Concat([k \in 1..Len(v) |-> DoubleToBytes(v[k])])

\* std::copy((float*)item.data(), ((float*)item.data()) + totalSize, v.begin())
BytesToFloats(bytes, totalSize) ==
  [k \in 1..totalSize |-> BytesToFloat(SubSeq(bytes, 4 * k - 3, 4 * k))]
BytesToDoubles(bytes, totalSize) ==
  [k \in 1..totalSize |-> BytesToDouble(SubSeq(bytes, 8 * k - 7, 8 * k))]

\* io::Item with shape {1, n}
Item(name, type, n, bytes) ==
  [name |-> name, shape |-> n, type |-> type, bytes |-> bytes]

FloatItem(name, v) == Item(name, "float32", Len(v), FloatsToBytes(v))

NoFile == [exists |-> FALSE, items |-> <<>>]

\* the items of the file with the given name; the last one wins, as in the
\* loop over io::loadItems
RECURSIVE LastItem(_, _, _)
LastItem(items, name, found) ==
  IF items = <<>> THEN found
  ELSE LastItem(Tail(items), name,
                IF Head(items).name = name THEN <<Head(items)>> ELSE found)

\* ------------------------------------------------ scatter / gather callbacks
\* slice of shard i when a flat vector is cut into NumShards equal pieces
SliceOf(data, i) ==
  LET shardSize == (Len(data) + NumShards - 1) \div NumShards
      begin == (i - 1) * shardSize
      end == IF begin + shardSize <= Len(data) THEN begin + shardSize ELSE Len(data)
  IN SubSeq(data, begin + 1, end)

\* gatherFn(getFn): the shards' vectors, concatenated in shard order
gatherFn(get) == Concat([i \in Shards |-> get[i]])

\* t->set(std::vector<float>): copies the vector to the start of the buffer
setVector(t, v) ==
  [t EXCEPT !.data = [k \in 1..Len(t.data) |-> IF k <= Len(v) THEN v[k] ELSE t.data[k]]]

\* ----------------------------------------------------------- save and load
\* c is the activation of one save() or load() call: the optimizers of all
\* shards, the checkpoint file, the log of the call and the abort reason.
\* ub says what reading through a null tensor pointer does in this run:
\* the process dies, or the read yields whatever the memory holds.

\* opt->X_->get(data) for every shard, concatenated by the gather callback
gatherState(c, what, ub) ==
  IF c.abort # "no" THEN [c |-> c, v |-> <<>>]
  ELSE
  LET tensorOf(i) == CASE what = "gt" -> c.opts[i].gt_
                       [] what = "mt" -> c.opts[i].mt_
                       [] what = "vt" -> c.opts[i].vt_
      c1 == Logged(c, Entry("gatherFn", what,
                            Cardinality({i \in Shards : IsNull(tensorOf(i))}), 0, <<>>))
  IN IF (\E i \in Shards : IsNull(tensorOf(i))) /\ ub.crash
     THEN [c |-> [c1 EXCEPT !.abort = "nullptr"], v |-> <<>>]
     ELSE [c |-> c1,
           v |-> gatherFn([i \in Shards |->
                    IF IsNull(tensorOf(i)) THEN [k \in 1..ShardSize(i) |-> ub.fill]
                                           ELSE tensorOf(i).data])]

\* io::saveItems(name, items)
saveItems(c, items) ==
  Logged([c EXCEPT !.file = [exists |-> TRUE, items |-> items]],
         Entry("saveItems", "", Len(items), 0, <<>>))

AdagradSave(c, isMainProcess, ub) ==
  LET g == gatherState(c, "gt", ub)
  IN IF g.c.abort # "no" \/ ~isMainProcess THEN g.c
     ELSE saveItems(g.c, <<FloatItem("adagrad_gt", g.v)>>)

\* the main-process check made before the gathers
AdamSaveMainOnly(c, self, isMainProcess, ub) ==
  IF ~isMainProcess THEN c
  ELSE LET gm == gatherState(c, "mt", ub)
           gv == gatherState(gm.c, "vt", ub)
           vDenoms == <<c.opts[self].denom1_, c.opts[self].denom2_>>
       IN IF gv.c.abort # "no" THEN gv.c
          ELSE saveItems(gv.c, <<FloatItem("adam_mt", gm.v),
                                FloatItem("adam_vt", gv.v),
                                Item("adam_denoms", "float64", Len(vDenoms),
                                     DoublesToBytes(vDenoms))>>)

AdamSave(c, self, isMainProcess, ub) ==
  LET gm == gatherState(c, "mt", ub)
      gv == gatherState(gm.c, "vt", ub)
      vDenoms == <<c.opts[self].denom1_, c.opts[self].denom2_>>
  IN IF gv.c.abort # "no" \/ ~isMainProcess THEN gv.c
     ELSE saveItems(gv.c, <<FloatItem("adam_mt", gm.v),
                           FloatItem("adam_vt", gv.v),
                           Item("adam_denoms", "float64", Len(vDenoms),
                                DoublesToBytes(vDenoms))>>)

\* save() called on optimizer `self` with the optimizers of all shards
save(c, self, isMainProcess, ub) ==
  CASE c.opts[self].alg = "sgd" -> c
    [] c.opts[self].alg = "adagrad" -> AdagradSave(c, isMainProcess, ub)
    [] c.opts[self].alg = "adam" -> AdamSave(c, self, isMainProcess, ub)

\* the vector read from the named item, empty when the file lacks the item
LoadedFloats(items, name) ==
  LET it == LastItem(items, name, <<>>)
  IN IF it = <<>> THEN <<>> ELSE BytesToFloats(it[1].bytes, it[1].shape)

\* set(std::vector) copies v.size() elements whatever the size of the tensor:
\* some shard's slice of v is longer than the statistic it is copied into
Overflows(os, what, v) ==
  \E i \in Shards :
    LET t == CASE what = "gt" -> os[i].gt_
               [] what = "mt" -> os[i].mt_
               [] what = "vt" -> os[i].vt_
    IN Len(SliceOf(v, i)) > size(t)

\* the statistic allocated anew by every load
AdagradScatterReallocates(c, vGt) ==
  LET setFn(o, slice) ==
        LET bytes == 4 * Len(slice)
        IN [o EXCEPT !.alloc_ = carve(reserveExact(o.alloc_, bytes), bytes),
                     !.gt_ = setVector(allocate(Len(slice), "float32", 0), slice)]
      c1 == [c EXCEPT !.opts = [i \in Shards |-> setFn(c.opts[i], SliceOf(vGt, i))]]
  IN Logged(c1, Entry("scatterFn", "gt",
                      Cardinality({i \in Shards : IsNull(c.opts[i].gt_)}), 0, vGt))

\* scatterFn(vGt, setFn) of Adagrad::load
AdagradScatter(c, vGt) ==
  LET setFn(o, slice) ==
        LET bytes == 4 * Len(slice)
            a == IF IsNull(o.gt_) THEN carve(reserveExact(o.alloc_, bytes), bytes)
                                  ELSE o.alloc_
            t == IF IsNull(o.gt_) THEN allocate(Len(slice), "float32", 0) ELSE o.gt_
        IN [o EXCEPT !.alloc_ = a, !.gt_ = setVector(t, slice)]
      c1 == [c EXCEPT !.opts = [i \in Shards |-> setFn(c.opts[i], SliceOf(vGt, i))]]
      c2 == Logged(c1, Entry("scatterFn", "gt",
                             Cardinality({i \in Shards : IsNull(c.opts[i].gt_)}), 0, vGt))
  IN IF Overflows(c1.opts, "gt", vGt)
     THEN Logged(c2, Entry("overflow", "gt", 0, 0, <<>>))
     ELSE c2

\* load() without the check that the file exists
AdagradLoadNoExistsCheck(c, nBackends) ==
  IF NumShards # nBackends THEN [c EXCEPT !.abort = "opts-backends"]
  ELSE LET vGt == LoadedFloats(c.file.items, "adagrad_gt")
       IN IF vGt = <<>> THEN Logged(c, Entry("warn", "not found", 0, 0, <<>>))
          ELSE AdagradScatter(c, vGt)

AdagradLoad(c, nBackends) ==
  IF NumShards # nBackends THEN [c EXCEPT !.abort = "opts-backends"]
  ELSE IF ~c.file.exists THEN c
  ELSE LET vGt == LoadedFloats(c.file.items, "adagrad_gt")
       IN IF vGt = <<>> THEN Logged(c, Entry("warn", "not found", 0, 0, <<>>))
          ELSE AdagradScatter(c, vGt)

\* the second scatter writing the first moment again
AdamScatterMtTwice(c, vMt, vVt) ==
  LET setMt(o, slice) ==
        LET bytes == 2 * 4 * Len(slice)
            lazy == IsNull(o.mt_) \/ IsNull(o.vt_)
            a == IF lazy THEN carve(reserveExact(o.alloc_, bytes), bytes) ELSE o.alloc_
            mt == IF lazy THEN allocate(Len(slice), "float32", 0) ELSE o.mt_
            vt == IF lazy THEN allocate(Len(slice), "float32", 0) ELSE o.vt_
        IN [o EXCEPT !.alloc_ = a, !.mt_ = setVector(mt, slice), !.vt_ = vt]
      setVt(o, slice) == [o EXCEPT !.mt_ = setVector(o.mt_, slice)]
      c1 == Logged([c EXCEPT !.opts = [i \in Shards |-> setMt(c.opts[i], SliceOf(vMt, i))]],
                   Entry("scatterFn", "mt",
                         Cardinality({i \in Shards : IsNull(c.opts[i].mt_)}), 0, vMt))
  IN Logged([c1 EXCEPT !.opts = [i \in Shards |-> setVt(c1.opts[i], SliceOf(vVt, i))]],
            Entry("scatterFn", "vt", 0, 0, vVt))

\* only the first moment allocated by the first scatter
AdamScatterMtOnly(c, vMt, vVt) ==
  LET setMt(o, slice) ==
        LET bytes == 4 * Len(slice)
            lazy == IsNull(o.mt_) \/ IsNull(o.vt_)
            a == IF lazy THEN carve(reserveExact(o.alloc_, bytes), bytes) ELSE o.alloc_
            mt == IF lazy THEN allocate(Len(slice), "float32", 0) ELSE o.mt_
        IN [o EXCEPT !.alloc_ = a, !.mt_ = setVector(mt, slice)]
      setVt(o, slice) == [o EXCEPT !.vt_ = setVector(o.vt_, slice)]
      c1 == Logged([c EXCEPT !.opts = [i \in Shards |-> setMt(c.opts[i], SliceOf(vMt, i))]],
                   Entry("scatterFn", "mt",
                         Cardinality({i \in Shards : IsNull(c.opts[i].mt_)}), 0, vMt))
  IN Logged([c1 EXCEPT !.opts = [i \in Shards |-> setVt(c1.opts[i], SliceOf(vVt, i))]],
            Entry("scatterFn", "vt", 0, 0, vVt))

\* the two scatterFn calls of Adam::load
AdamScatter(c, vMt, vVt) ==
  LET setMt(o, slice) ==
        LET bytes == 2 * 4 * Len(slice)
            lazy == IsNull(o.mt_) \/ IsNull(o.vt_)
            a == IF lazy THEN carve(reserveExact(o.alloc_, bytes), bytes) ELSE o.alloc_
            mt == IF lazy THEN allocate(Len(slice), "float32", 0) ELSE o.mt_
            vt == IF lazy THEN allocate(Len(slice), "float32", 0) ELSE o.vt_
        IN [o EXCEPT !.alloc_ = a, !.mt_ = setVector(mt, slice), !.vt_ = vt]
      setVt(o, slice) == [o EXCEPT !.vt_ = setVector(o.vt_, slice)]
      c1 == Logged([c EXCEPT !.opts = [i \in Shards |-> setMt(c.opts[i], SliceOf(vMt, i))]],
                   Entry("scatterFn", "mt",
                         Cardinality({i \in Shards : IsNull(c.opts[i].mt_)}), 0, vMt))
      c2 == Logged([c1 EXCEPT !.opts = [i \in Shards |-> setVt(c1.opts[i], SliceOf(vVt, i))]],
                   Entry("scatterFn", "vt", 0, 0, vVt))
  IN IF Overflows(c1.opts, "mt", vMt) \/ Overflows(c1.opts, "vt", vVt)
     THEN Logged(c2, Entry("overflow", "mt/vt", 0, 0, <<>>))
     ELSE c2

\* the warning given only when both moments are missing
AdamLoadBothMissing(c, self, nBackends, uninit) ==
  IF NumShards # nBackends THEN [c EXCEPT !.abort = "opts-backends"]
  ELSE IF ~c.file.exists THEN c
  ELSE
  LET vMt == LoadedFloats(c.file.items, "adam_mt")
      vVt == LoadedFloats(c.file.items, "adam_vt")
      dn == LastItem(c.file.items, "adam_denoms", <<>>)
      badDenoms == \E k \in 1..Len(c.file.items) :
                      c.file.items[k].name = "adam_denoms" /\ c.file.items[k].shape # 2
      vDenoms == IF dn = <<>> THEN <<uninit, uninit>>
                 ELSE BytesToDoubles(dn[1].bytes, 2)
  IN IF badDenoms THEN [c EXCEPT !.abort = "adam_denoms"]
     ELSE IF vMt = <<>> /\ vVt = <<>>
       THEN Logged(c, Entry("warn", "not found", 0, 0, <<>>))
     ELSE IF Len(vMt) # Len(vVt) THEN [c EXCEPT !.abort = "mt-vt-sizes"]
     ELSE LET c2 == AdamScatter(c, vMt, vVt)
          IN [c2 EXCEPT !.opts[self].denom1_ = vDenoms[1],
                        !.opts[self].denom2_ = vDenoms[2]]

\* the moments scattered without their lengths being compared
AdamLoadSizesUnchecked(c, self, nBackends, uninit) ==
  IF NumShards # nBackends THEN [c EXCEPT !.abort = "opts-backends"]
  ELSE IF ~c.file.exists THEN c
  ELSE
  LET vMt == LoadedFloats(c.file.items, "adam_mt")
      vVt == LoadedFloats(c.file.items, "adam_vt")
      dn == LastItem(c.file.items, "adam_denoms", <<>>)
      badDenoms == \E k \in 1..Len(c.file.items) :
                      c.file.items[k].name = "adam_denoms" /\ c.file.items[k].shape # 2
      vDenoms == IF dn = <<>> THEN <<uninit, uninit>>
                 ELSE BytesToDoubles(dn[1].bytes, 2)
  IN IF badDenoms THEN [c EXCEPT !.abort = "adam_denoms"]
     ELSE IF vMt = <<>> \/ vVt = <<>>
       THEN Logged(c, Entry("warn", "not found", 0, 0, <<>>))
     ELSE LET c2 == AdamScatter(c, vMt, vVt)
          IN [c2 EXCEPT !.opts[self].denom1_ = vDenoms[1],
                        !.opts[self].denom2_ = vDenoms[2]]

\* the file looked for before the optimizers and backends are counted
AdamLoadExistsFirst(c, self, nBackends, uninit) ==
  IF ~c.file.exists THEN c
  ELSE IF NumShards # nBackends THEN [c EXCEPT !.abort = "opts-backends"]
  ELSE
  LET vMt == LoadedFloats(c.file.items, "adam_mt")
      vVt == LoadedFloats(c.file.items, "adam_vt")
      dn == LastItem(c.file.items, "adam_denoms", <<>>)
      badDenoms == \E k \in 1..Len(c.file.items) :
                      c.file.items[k].name = "adam_denoms" /\ c.file.items[k].shape # 2
      vDenoms == IF dn = <<>> THEN <<uninit, uninit>>
                 ELSE BytesToDoubles(dn[1].bytes, 2)
  IN IF badDenoms THEN [c EXCEPT !.abort = "adam_denoms"]
     ELSE IF vMt = <<>> \/ vVt = <<>>
       THEN Logged(c, Entry("warn", "not found", 0, 0, <<>>))
     ELSE IF Len(vMt) # Len(vVt) THEN [c EXCEPT !.abort = "mt-vt-sizes"]
     ELSE LET c2 == AdamScatter(c, vMt, vVt)
          IN [c2 EXCEPT !.opts[self].denom1_ = vDenoms[1],
                        !.opts[self].denom2_ = vDenoms[2]]

\* uninit is what the never-initialised local vDenoms holds
AdamLoad(c, self, nBackends, uninit) ==
  IF NumShards # nBackends THEN [c EXCEPT !.abort = "opts-backends"]
  ELSE IF ~c.file.exists THEN c
  ELSE
  LET vMt == LoadedFloats(c.file.items, "adam_mt")
      vVt == LoadedFloats(c.file.items, "adam_vt")
      dn == LastItem(c.file.items, "adam_denoms", <<>>)
      badDenoms == \E k \in 1..Len(c.file.items) :
                      c.file.items[k].name = "adam_denoms" /\ c.file.items[k].shape # 2
      vDenoms == IF dn = <<>> THEN <<uninit, uninit>>
                 ELSE BytesToDoubles(dn[1].bytes, 2)
  IN IF badDenoms THEN [c EXCEPT !.abort = "adam_denoms"]
     ELSE IF vMt = <<>> \/ vVt = <<>>
       THEN Logged(c, Entry("warn", "not found", 0, 0, <<>>))
     ELSE IF Len(vMt) # Len(vVt) THEN [c EXCEPT !.abort = "mt-vt-sizes"]
     ELSE LET c2 == AdamScatter(c, vMt, vVt)
          IN [c2 EXCEPT !.opts[self].denom1_ = vDenoms[1],
                        !.opts[self].denom2_ = vDenoms[2]]

\* load() called on optimizer `self` with the optimizers of all shards
load(c, self, nBackends, uninit) ==
  CASE c.opts[self].alg = "sgd" -> c
    [] c.opts[self].alg = "adagrad" -> AdagradLoad(c, nBackends)
    [] c.opts[self].alg = "adam" -> AdamLoad(c, self, nBackends, uninit)

\* ---------------------------------------------------------- lifecycle hooks
\* resetStats() of Sgd, Adagrad and Adam
SgdResetStats(o) == o

AdagradResetStats(o) ==
  [o EXCEPT !.gt_ = IF IsNull(@) THEN @ ELSE setValue(@, 0)]

\* the moments zeroed, the denominators kept
AdamResetStatsKeepsDenoms(o) ==
  [o EXCEPT !.mt_ = IF IsNull(@) THEN @ ELSE setValue(@, 0),
            !.vt_ = IF IsNull(@) THEN @ ELSE setValue(@, 0)]

AdamResetStats(o) ==
  [o EXCEPT !.mt_ = IF IsNull(@) THEN @ ELSE setValue(@, 0),
            !.vt_ = IF IsNull(@) THEN @ ELSE setValue(@, 0),
            !.denom1_ = 0,
            !.denom2_ = 0]

resetStats(o) ==
  CASE o.alg = "sgd" -> SgdResetStats(o)
    [] o.alg = "adagrad" -> AdagradResetStats(o)
    [] o.alg = "adam" -> AdamResetStats(o)

\* the training observer's hooks; state is the TrainingState delivered
init(o, state) == [o EXCEPT !.eta_ = state.eta]

actAfterLoaded(o, state) == [o EXCEPT !.eta_ = state.eta]

actAfterEpoch(o, state) ==
  LET o1 == [o EXCEPT !.eta_ = state.eta]
  IN IF state.reset THEN resetStats(o1) ELSE o1

actAfterBatches(o, state) ==
  LET o1 == [o EXCEPT !.eta_ = state.eta, !.batchesSeen_ = state.batches]
  IN IF state.reset THEN resetStats(o1) ELSE o1

\* the hook taking the learning rate but ignoring the reset flag
actAfterStalledNoReset(o, state) == [o EXCEPT !.eta_ = state.eta]

actAfterStalled(o, state) ==
  LET o1 == [o EXCEPT !.eta_ = state.eta]
  IN IF state.reset THEN resetStats(o1) ELSE o1

Hooks == {"init", "actAfterLoaded", "actAfterEpoch", "actAfterBatches", "actAfterStalled"}

\* the scheduler calling one hook of the observer
notify(name, o, state) ==
  CASE name = "init" -> init(o, state)
    [] name = "actAfterLoaded" -> actAfterLoaded(o, state)
    [] name = "actAfterEpoch" -> actAfterEpoch(o, state)
    [] name = "actAfterBatches" -> actAfterBatches(o, state)
    [] name = "actAfterStalled" -> actAfterStalled(o, state)

\* the weight decay of Adam left at its default
setParamsNoWeightDecay(o, params) ==
  CASE o.alg = "sgd" -> o
    [] o.alg = "adagrad" -> [o EXCEPT !.eps_ = IF Len(params) > 0 THEN params[1] ELSE @]
    [] o.alg = "adam" ->
         [o EXCEPT !.beta1_ = IF Len(params) > 0 THEN params[1] ELSE @,
                   !.beta2_ = IF Len(params) > 1 THEN params[2] ELSE @,
                   !.eps_ = IF Len(params) > 2 THEN params[3] ELSE @]

\* setParams(params) of Sgd, Adagrad and Adam: values as floats
setParams(o, params) ==
  CASE o.alg = "sgd" -> o
    [] o.alg = "adagrad" -> [o EXCEPT !.eps_ = IF Len(params) > 0 THEN params[1] ELSE @]
    [] o.alg = "adam" ->
         [o EXCEPT !.beta1_ = IF Len(params) > 0 THEN params[1] ELSE @,
                   !.beta2_ = IF Len(params) > 1 THEN params[2] ELSE @,
                   !.eps_ = IF Len(params) > 2 THEN params[3] ELSE @,
                   !.w_ = IF Len(params) > 3 THEN params[4] ELSE @]

\* no optimizer: what Optimizer(options) leaves its caller with when it aborts
UnknownOptimizer == [alg |-> "unknown"]

\* Optimizer(options): the optimizer of the configured kind, with the
\* "optimizer-params" option applied; any other kind aborts
Optimizer(conf, params) ==
  IF conf.alg \notin Algs THEN UnknownOptimizer
  ELSE setParams(NewOptimizer(conf.alg, conf), params)

\* ------------------------------------------------------------------- state
VARIABLES
  opts,      \* the optimizer of every shard
  heap,      \* the tensors of every shard: caller-owned and shadow-arena ones
  file,      \* the checkpoint file
  aborted,   \* "no", or why the process died
  log,       \* the call made last and the steps it performed, in order
  hist,      \* per shard: what its update() calls were like so far
  saved,     \* the running state that the last save() wrote
  nUpdates,  \* update() calls made so far
  nCheckpoints, \* save() and load() calls made so far
  nHooks,    \* lifecycle hooks delivered so far
  view,      \* the tensor that the last subtensor() call returned
  loop       \* the training loop: its main thread, task queue and workers

vars == <<opts, heap, file, aborted, log, hist, saved, nUpdates, nCheckpoints,
          nHooks, view, loop>>

\* the options an optimizer is constructed from
Confs ==
  [alg : Algs, eta : {100}, refMBWords : {0, 2}, costScale : {FS, 2 * FS},
   clipNorm : {0, 2500}, mvAvg : BOOLEAN]

\* options of the runs that exercise the checkpoint protocol
CheckpointConfs ==
  [alg : Algs, eta : {100}, refMBWords : {0}, costScale : {FS},
   clipNorm : {0}, mvAvg : {FALSE}]

MBSizes == {mbSizeNotProvided, 1, 2}
ParamTypes == {"float16", "float32"}

\* the graph's parameter and gradient tensors of shard i, in both precisions
InitHeap(i) ==
  LET p32 == allocate(ShardSize(i), "float32", 1004)
      p16 == CopyCast(allocate(ShardSize(i), "float16", 0), p32)
  IN [n \in HeapNames |->
        CASE n = "P32" -> p32
          [] n = "P16" -> p16
          [] n = "G32" -> allocate(ShardSize(i), "float32", 0)
          [] n = "G16" -> allocate(ShardSize(i), "float16", 0)
          [] OTHER -> NullTensor]

\* the training loop before TrainingLoop() is entered
NoLoop == [pc |-> "none"]

\* k and g: the update() calls that returned since the optimizer was built or
\* its statistics were last zero, and their gradient (0: none yet, -1: several);
\* step: by how much the last update() that returned lowered the first parameter
NoHist == [first |-> "unset", all |-> "unset", calls |-> 0, reserves |-> 0,
           changed |-> FALSE, lastChanged |-> FALSE, k |-> 0, g |-> 0, step |-> 0]
NothingSaved == [valid |-> FALSE, gt |-> <<>>, mt |-> <<>>, vt |-> <<>>,
                 denom1 |-> 0, denom2 |-> 0]

InitWith(confs) ==
  /\ \E conf \in confs : opts = [i \in Shards |-> NewOptimizer(conf.alg, conf)]
  /\ heap = [i \in Shards |-> InitHeap(i)]
  /\ file = NoFile
  /\ aborted = "no"
  /\ log = <<>>
  /\ hist = [i \in Shards |-> NoHist]
  /\ saved = NothingSaved
  /\ nUpdates = 0
  /\ nCheckpoints = 0
  /\ nHooks = 0
  /\ view = NullTensor
  /\ loop = NoLoop

Init == InitWith(Confs)

InitCheckpoint == InitWith(CheckpointConfs)

CountSteps(l, step, what) ==
  Cardinality({k \in 1..Len(l) : l[k].step = step /\ l[k].what = what})

\* what freshly allocated memory may hold, where the call reads it before
\* writing it (the moving-average accumulator)
FreshMemory(o) == IF o.mvAvg_ /\ ~o.optAlloc_.live THEN UninitVals ELSE {0}

\* what lies beyond the end of a tensor, where an element-wise operation reads
\* it: statistics loaded with another length than the n parameters
BeyondEnd(o, n) ==
  IF \E t \in {o.gt_, o.mt_, o.vt_} : ~IsNull(t) /\ size(t) # n THEN UninitVals ELSE {}

\* the trainer of shard i calls update(params, grads, mbSize) with the
\* tensors of the given precision, after backward() has written the gradients
UpdateUpTo(max, i, type, g, mbSize) ==
  /\ aborted = "no"
  /\ nUpdates < max
  /\ \E fill \in FreshMemory(opts[i]) \cup BeyondEnd(opts[i], ShardSize(i)) :
       LET grads == [k \in 1..ShardSize(i) |-> Convert(type, g + 1000 * (k - 1))]
           h0 == [heap[i] EXCEPT ![GName(type)].data = grads]
       IN \E m \in {update(opts[i], h0, PName(type), GName(type), mbSize, fill)} :
          LET regime == IF m.castOptimizerType THEN "cast" ELSE "nocast" IN
          /\ opts' = [opts EXCEPT ![i] = m.o]
          /\ heap' = [heap EXCEPT ![i] = m.h]
          /\ aborted' = m.abort
          /\ log' = <<Entry("update", regime, i, mbSize, grads)>> \o m.log
          /\ hist' = [hist EXCEPT
                        ![i].first = IF @ = "unset" THEN regime ELSE @,
                        ![i].all = IF @ \in {"unset", regime} THEN regime ELSE "mixed",
                        ![i].calls = @ + 1,
                        ![i].reserves = @ + CountSteps(m.log, "reserveExact", "optAlloc_"),
                        ![i].changed = FALSE,
                        ![i].lastChanged = hist[i].changed,
                        ![i].k = IF m.abort = "no" THEN @ + 1 ELSE @,
                        ![i].g = IF m.abort # "no" THEN @
                                 ELSE IF hist[i].k = 0 \/ @ = g THEN g ELSE -1,
                        ![i].step = IF m.abort # "no" \/ ShardSize(i) = 0 THEN @
                                    ELSE h0[PName(type)].data[1] - m.h[PName(type)].data[1]]
  /\ nUpdates' = nUpdates + 1
  /\ UNCHANGED <<file, saved, nCheckpoints, nHooks, view, loop>>

Update(i, type, g, mbSize) == UpdateUpTo(MaxUpdates, i, type, g, mbSize)

\* the caller overwrites the parameter tensor it trains with between two updates
ParamsChanged(i, type) ==
  /\ aborted = "no"
  /\ Len(log) > 0 /\ log[1].step = "update" /\ log[1].a = i
  /\ log[1].what = (IF type = "float32" THEN "nocast" ELSE "cast")
  /\ heap' = [heap EXCEPT ![i][PName(type)].data =
                [k \in 1..ShardSize(i) |-> Convert(type, 2004)]]
  /\ log' = <<Entry("params", type, i, 0, <<>>)>>
  /\ hist' = [hist EXCEPT ![i].changed = TRUE]
  /\ UNCHANGED <<opts, file, aborted, saved, nUpdates, nCheckpoints, nHooks, view, loop>>

StateOf(os, self) ==
  [valid |-> TRUE,
   gt |-> [i \in Shards |-> os[i].gt_.data],
   mt |-> [i \in Shards |-> os[i].mt_.data],
   vt |-> [i \in Shards |-> os[i].vt_.data],
   denom1 |-> os[self].denom1_, denom2 |-> os[self].denom2_]

\* the outcomes of reading through a null tensor pointer, where a call does so
NullReads(os) ==
  IF \E i \in Shards : (os[i].alg = "adagrad" /\ IsNull(os[i].gt_))
                       \/ (os[i].alg = "adam" /\ (IsNull(os[i].mt_) \/ IsNull(os[i].vt_)))
  THEN {[crash |-> TRUE, fill |-> 0]} \cup {[crash |-> FALSE, fill |-> u] : u \in UninitVals}
  ELSE {[crash |-> FALSE, fill |-> 0]}

\* opts[self]->save(name, opts, gatherFn, isMainProcess)
Save(self, isMainProcess) ==
  /\ aborted = "no"
  /\ nCheckpoints < MaxCheckpoints
  /\ \E ub \in NullReads(opts) :
       \E c \in {save([opts |-> opts, file |-> file, log |-> <<>>, abort |-> "no"],
                     self, isMainProcess, ub)} :
          /\ file' = c.file
          /\ aborted' = c.abort
          /\ log' = <<Entry("save", IF isMainProcess THEN "main" ELSE "other",
                            self, 0, <<>>)>> \o c.log
          /\ saved' = IF CountSteps(c.log, "saveItems", "") > 0
                      THEN StateOf(opts, self) ELSE saved
  /\ nCheckpoints' = nCheckpoints + 1
  /\ UNCHANGED <<opts, heap, hist, nUpdates, nHooks, view, loop>>

\* what the local vDenoms of Adam::load may hold before the items are read
FreshLocal(os, self) == IF os[self].alg = "adam" THEN UninitVals ELSE {0}

\* how the call c of load() ends: a copy beyond the end of a statistic kills
\* the process or goes unnoticed
LoadOutcomes(c) ==
  IF \E k \in 1..Len(c.log) : c.log[k].step = "overflow"
  THEN {c.abort, "overflow"} ELSE {c.abort}

\* opts[self]->load(name, opts, backends, scatterFn)
Load(self, nBackends) ==
  /\ aborted = "no"
  /\ nCheckpoints < MaxCheckpoints
  /\ \E uninit \in FreshLocal(opts, self) :
       \E c \in {load([opts |-> opts, file |-> file, log |-> <<>>, abort |-> "no"],
                     self, nBackends, uninit)} :
          /\ opts' = c.opts
          /\ aborted' \in LoadOutcomes(c)
          /\ log' = <<Entry("load", IF file.exists THEN "exists" ELSE "absent",
                            self, nBackends, <<>>)>> \o c.log
  /\ nCheckpoints' = nCheckpoints + 1
  /\ UNCHANGED <<heap, file, hist, saved, nUpdates, nHooks, view, loop>>

\* a checkpoint written by something else than this run: removed, empty,
\* lacking one of the moments, or from before the denominators were saved
ExternalVector == [k \in 1..TotalElements |-> 1000 * k]

ExternalFiles ==
  LET mt == FloatItem("adam_mt", ExternalVector)
      vt == FloatItem("adam_vt", ExternalVector)
      dn == Item("adam_denoms", "float64", 2, DoublesToBytes(<<1000, 1900>>))
  IN {NoFile} \cup
     { [exists |-> TRUE, items |-> it] : it \in {<<>>, <<mt, dn>>, <<vt, dn>>, <<mt, vt>>} }

ExternalFile(f) ==
  /\ file # f
  /\ file' = f
  /\ saved' = NothingSaved
  /\ log' = <<Entry("file", "", 0, 0, <<>>)>>
  /\ nCheckpoints < MaxCheckpoints
  /\ nCheckpoints' = nCheckpoints + 1
  /\ UNCHANGED <<opts, heap, aborted, hist, nUpdates, nHooks, view, loop>>

\* the process is started again: optimizers are constructed anew from the
\* same options, the checkpoint file stays
Restart ==
  /\ opts' = [i \in Shards |->
               NewOptimizer(opts[i].alg,
                 [eta |-> 100, refMBWords |-> opts[i].refMBWordsParam_,
                  costScale |-> opts[i].costScale_, clipNorm |-> opts[i].clipper_,
                  mvAvg |-> opts[i].mvAvg_])]
  /\ heap' = [i \in Shards |-> InitHeap(i)]
  /\ aborted' = "no"
  /\ hist' = [i \in Shards |-> NoHist]
  /\ log' = <<Entry("restart", "", 0, 0, <<>>)>>
  /\ UNCHANGED <<file, saved, nUpdates, nCheckpoints, nHooks, view, loop>>

\* one optimizer and its trainer: update() touches only the optimizer it is
\* called on and the tensors handed to it
Next ==
  \/ \E type \in ParamTypes, g \in GradVals, mbSize \in MBSizes : Update(1, type, g, mbSize)
  \/ \E type \in ParamTypes : ParamsChanged(1, type)

Spec == Init /\ [][Next]_vars

\* the optimizers of all shards with their checkpoint file
NextCheckpoint ==
  \/ \E i \in Shards, g \in CheckpointGrads : Update(i, "float32", g, 1)
  \/ \E self \in Shards, isMainProcess \in BOOLEAN : Save(self, isMainProcess)
  \/ \E self \in Shards, nBackends \in {NumShards, NumShards + 1} : Load(self, nBackends)
  \/ \E f \in ExternalFiles : ExternalFile(f)
  \/ Restart

SpecCheckpoint == InitCheckpoint /\ [][NextCheckpoint]_vars

\* what the scheduler may deliver to a hook
TrainingStates == [eta : {50}, batches : {3}, reset : BOOLEAN]

\* the statistics of o are unallocated or zero, and so are its denominators
StatsZero(o) ==
  /\ \A t \in {o.gt_, o.mt_, o.vt_} : \A k \in 1..Len(t.data) : t.data[k] = 0
  /\ o.denom1_ = 0 /\ o.denom2_ = 0

\* the scheduler delivers state to the hook `name` of the optimizer of shard i
Notify(i, name, state) ==
  /\ aborted = "no"
  /\ nHooks < MaxHooks
  /\ opts' = [opts EXCEPT ![i] = notify(name, @, state)]
  /\ log' = <<Entry(name, IF state.reset THEN "reset" ELSE "keep", i, state.eta,
                    <<state.batches>>)>>
  /\ hist' = [hist EXCEPT ![i].k = IF StatsZero(opts'[i]) THEN 0 ELSE @,
                          ![i].g = IF StatsZero(opts'[i]) THEN 0 ELSE @]
  /\ nHooks' = nHooks + 1
  /\ UNCHANGED <<heap, file, aborted, saved, nUpdates, nCheckpoints, view, loop>>

\* the "optimizer-params" option: absent, or beta1 = 0.5 and beta2 = 0
\* (Adagrad: eps = 0.5)
OptimizerParams == {<<>>, <<500, 0>>}

\* options of the runs that exercise the hooks and the update rules
LifecycleConfs ==
  [alg : Algs, eta : {100}, refMBWords : {0}, costScale : {FS},
   clipNorm : {0}, mvAvg : BOOLEAN]

InitLifecycle == InitWith(LifecycleConfs)

\* options of the runs that exercise the update rules over several steps
RuleConfs ==
  [alg : Algs, eta : {100}, refMBWords : {0, 2}, costScale : {FS},
   clipNorm : {0}, mvAvg : {FALSE}]

InitRules ==
  /\ \E conf \in RuleConfs, params \in OptimizerParams :
        opts = [i \in Shards |-> Optimizer(conf, params)]
  /\ heap = [i \in Shards |-> InitHeap(i)]
  /\ file = NoFile
  /\ aborted = "no"
  /\ log = <<>>
  /\ hist = [i \in Shards |-> NoHist]
  /\ saved = NothingSaved
  /\ nUpdates = 0
  /\ nCheckpoints = 0
  /\ nHooks = 0
  /\ view = NullTensor
  /\ loop = NoLoop

\* one optimizer, its trainer and the scheduler observing the training
NextLifecycle ==
  \/ \E type \in ParamTypes, g \in CheckpointGrads : Update(1, type, g, 1)
  \/ \E name \in Hooks, state \in TrainingStates : Notify(1, name, state)

SpecLifecycle == InitLifecycle /\ [][NextLifecycle]_vars

\* one optimizer trained over several steps with the statistics reset in
\* between
NextRules ==
  \/ \E g \in GradVals : UpdateUpTo(MaxRuleUpdates, 1, "float32", g, 2)
  \/ Notify(1, "actAfterEpoch", [eta |-> 100, batches |-> 3, reset |-> TRUE])

SpecRules == InitRules /\ [][NextRules]_vars

\* the "optimizer" and "optimizer-params" options a run may be started with:
\* a known or an unknown kind, and up to MaxParams values
OptimizerKinds == Algs \cup {"rmsprop"}
ParamVals == {500, 2}
ParamVectors == UNION {[1..n -> ParamVals] : n \in 0..MaxParams}

FactoryConfs ==
  [alg : OptimizerKinds, eta : {100}, refMBWords : {0}, costScale : {FS},
   clipNorm : {0}, mvAvg : {FALSE}]

\* the optimizer of a shard before the trainer has built it
NoOptimizer == [alg |-> "none"]

InitFactory ==
  /\ opts = [i \in Shards |-> NoOptimizer]
  /\ heap = [i \in Shards |-> InitHeap(i)]
  /\ file = NoFile
  /\ aborted = "no"
  /\ log = <<>>
  /\ hist = [i \in Shards |-> NoHist]
  /\ saved = NothingSaved
  /\ nUpdates = 0
  /\ nCheckpoints = 0
  /\ nHooks = 0
  /\ view = NullTensor
  /\ loop = NoLoop

\* the trainer of shard i builds its optimizer: opt = Optimizer(options)
Build(i, conf, params) ==
  /\ aborted = "no"
  /\ opts[i] = NoOptimizer
  /\ \E o \in {Optimizer(conf, params)} :
       /\ opts' = IF o = UnknownOptimizer THEN opts ELSE [opts EXCEPT ![i] = o]
       /\ aborted' = IF o = UnknownOptimizer THEN "unknown-optimizer" ELSE "no"
  /\ log' = <<Entry("Optimizer", conf.alg, i, 0, params)>>
  /\ UNCHANGED <<heap, file, hist, saved, nUpdates, nCheckpoints, nHooks, view, loop>>

NextFactory == \E conf \in FactoryConfs, params \in ParamVectors : Build(1, conf, params)

SpecFactory == InitFactory /\ [][NextFactory]_vars

\* a caller takes a view of n elements of one of the tensors of shard i
Subtensor(i, name, offset, n) ==
  /\ aborted = "no"
  /\ ~IsNull(heap[i][name])
  /\ offset + n <= size(heap[i][name])
  /\ view' = subtensor(heap[i][name], offset, n)
  /\ log' = <<Entry("subtensor", name, i, offset, <<n>>)>>
  /\ UNCHANGED <<opts, heap, file, aborted, hist, saved, nUpdates, nCheckpoints,
                 nHooks, loop>>

\* one optimizer, its trainer and a caller taking views of the shard's tensors
NextTensor ==
  \/ \E type \in ParamTypes, g \in CheckpointGrads : Update(1, type, g, 1)
  \/ \E name \in HeapNames, offset \in 0..TotalElements, n \in 1..TotalElements :
        Subtensor(1, name, offset, n)

SpecTensor == InitLifecycle /\ [][NextTensor]_vars

\* ------------------------------------------------------------ training loop
\* devices: the "device" option, one entry per shard; the pool has as many
\* worker threads as devices and holds at most as many waiting tasks
Devices == Shards
Workers == 1..NumShards
NoTask == [device |-> 0, epoch |-> 0]

\* TrainingLoop() up to the first test of the stop condition: the pool is
\* built, epochs = 1, batches = 0, no worker has a graph or an optimizer yet
StartLoop(afterEpochs, afterBatches) ==
  [pc |-> "while", afterEpochs |-> afterEpochs, afterBatches |-> afterBatches,
   epochs |-> 1, batches |-> 0,
   scope |-> 0,       \* the epoch whose costSum, samples, wordsDisp are alive
   device |-> 0,      \* the device the for loop is at
   queue |-> <<>>,    \* the tasks waiting in the pool
   task |-> [w \in Workers |-> NoTask],   \* the task each worker is running
   graph |-> [w \in Workers |-> 0],       \* the device of its thread_local graph
   opt |-> [w \in Workers |-> 0],         \* its thread_local optimizer
   made |-> [w \in Workers |-> 0],        \* graphs and optimizers it created
   stale |-> FALSE,   \* a task has written accumulators that were gone
   saved |-> FALSE]   \* the final save has run

InitTraining ==
  /\ opts = [i \in Shards |-> NoOptimizer]
  /\ heap = [i \in Shards |-> InitHeap(i)]
  /\ file = NoFile
  /\ aborted = "no"
  /\ log = <<>>
  /\ hist = [i \in Shards |-> NoHist]
  /\ saved = NothingSaved
  /\ nUpdates = 0
  /\ nCheckpoints = 0
  /\ nHooks = 0
  /\ view = NullTensor
  /\ \E afterEpochs \in 1..MaxEpochs, afterBatches \in {0, NumShards + 1} :
        loop = StartLoop(afterEpochs, afterBatches)

\* the while condition of the epoch loop, then prepare() and the new
\* accumulators of the iteration
TestStop ==
  /\ aborted = "no"
  /\ loop.pc = "while"
  /\ loop' = IF /\ (loop.afterEpochs = 0 \/ loop.epochs <= loop.afterEpochs)
                /\ (loop.afterBatches = 0 \/ loop.batches < loop.afterBatches)
             THEN [loop EXCEPT !.pc = "for", !.scope = loop.epochs, !.device = 1]
             ELSE [loop EXCEPT !.pc = "save"]
  /\ UNCHANGED <<opts, heap, file, aborted, log, hist, saved, nUpdates,
                 nCheckpoints, nHooks, view>>

\* pool.enqueue(update, batch) for the next device; it waits while the pool
\* holds as many waiting tasks as there are devices
Enqueue ==
  /\ aborted = "no"
  /\ loop.pc = "for"
  /\ Len(loop.queue) < NumShards
  /\ loop' = [loop EXCEPT
                !.queue = Append(@, [device |-> loop.device, epoch |-> loop.epochs]),
                !.device = @ + 1,
                !.pc = IF loop.device = NumShards THEN "epochs++" ELSE "for"]
  /\ UNCHANGED <<opts, heap, file, aborted, log, hist, saved, nUpdates,
                 nCheckpoints, nHooks, view>>

\* the end of the iteration: the accumulators go out of scope, epochs++
EndEpoch ==
  /\ aborted = "no"
  /\ loop.pc = "epochs++"
  /\ loop' = [loop EXCEPT !.pc = "while", !.scope = 0, !.epochs = @ + 1]
  /\ UNCHANGED <<opts, heap, file, aborted, log, hist, saved, nUpdates,
                 nCheckpoints, nHooks, view>>

\* save(model + ".npz") after the loop
FinalSave ==
  /\ aborted = "no"
  /\ loop.pc = "save"
  /\ loop' = [loop EXCEPT !.pc = "return", !.saved = TRUE]
  /\ UNCHANGED <<opts, heap, file, aborted, log, hist, saved, nUpdates,
                 nCheckpoints, nHooks, view>>

\* the return of TrainingLoop(): the destructor of the pool waits for the
\* tasks
Return ==
  /\ aborted = "no"
  /\ loop.pc = "return"
  /\ loop.queue = <<>>
  /\ \A w \in Workers : loop.task[w] = NoTask
  /\ loop' = [loop EXCEPT !.pc = "done"]
  /\ UNCHANGED <<opts, heap, file, aborted, log, hist, saved, nUpdates,
                 nCheckpoints, nHooks, view>>

\* worker w takes the oldest task and runs the update lambda up to
\* opt->update(graph): it creates its graph on the device of this task and
\* its optimizer unless it has them
Take(w) ==
  /\ aborted = "no"
  /\ loop.task[w] = NoTask
  /\ loop.queue # <<>>
  /\ loop' = [loop EXCEPT
                !.queue = Tail(@),
                !.task[w] = Head(loop.queue),
                !.graph[w] = IF @ = 0 THEN Head(loop.queue).device ELSE @,
                !.opt[w] = IF @ = 0 THEN w ELSE @,
                !.made[w] = @ + (IF loop.graph[w] = 0 THEN 1 ELSE 0)]
  /\ UNCHANGED <<opts, heap, file, aborted, log, hist, saved, nUpdates,
                 nCheckpoints, nHooks, view>>

\* worker w ends its task under the lock: it adds to the accumulators it
\* captured by reference and counts the batch; accumulators of an iteration
\* that has ended are gone, and writing them kills the process or goes
\* unnoticed
Finish(w) ==
  /\ aborted = "no"
  /\ loop.task[w] # NoTask
  /\ LET gone == loop.task[w].epoch # loop.scope
     IN /\ loop' = [loop EXCEPT !.task[w] = NoTask, !.batches = @ + 1,
                                !.stale = @ \/ gone]
        /\ aborted' \in IF gone THEN {"no", "use-after-scope"} ELSE {"no"}
  /\ UNCHANGED <<opts, heap, file, log, hist, saved, nUpdates,
                 nCheckpoints, nHooks, view>>

\* the main thread and the worker threads of the pool
NextTraining ==
  \/ TestStop
  \/ Enqueue
  \/ EndEpoch
  \/ FinalSave
  \/ Return
  \/ \E w \in Workers : Take(w)
  \/ \E w \in Workers : Finish(w)

SpecTraining == InitTraining /\ [][NextTraining]_vars

\* checkpoints of a run with another number of parameters, or damaged: the
\* statistics shorter or longer in every shard, the moments of different lengths
ForeignVector(n) == [k \in 1..n |-> 1000 * k]

ForeignFiles(alg) ==
  LET dn == Item("adam_denoms", "float64", 2, DoublesToBytes(<<1000, 1900>>))
      adam(a, b) == [exists |-> TRUE,
                     items |-> <<FloatItem("adam_mt", ForeignVector(a)),
                                 FloatItem("adam_vt", ForeignVector(b)), dn>>]
      adagrad(a) == [exists |-> TRUE,
                     items |-> <<FloatItem("adagrad_gt", ForeignVector(a))>>]
      n == TotalElements
  IN CASE alg = "adam" -> {adam(n, n - 1), adam(n - 1, n - 1), adam(n + NumShards, n + NumShards)}
       [] alg = "adagrad" -> {adagrad(n - 1), adagrad(n + NumShards)}
       [] OTHER -> {}

\* options of the runs that load checkpoints they did not write
LoadConfs ==
  [alg : {"adagrad", "adam"}, eta : {100}, refMBWords : {0}, costScale : {FS},
   clipNorm : {0}, mvAvg : {FALSE}]

InitLoad == InitWith(LoadConfs)

\* the optimizers of all shards, the first of them trained, reset, saved and
\* loaded
NextLoad ==
  \/ Update(1, "float32", 2000, 1)
  \/ \E f \in ForeignFiles(opts[1].alg) : ExternalFile(f)
  \/ Load(1, NumShards)
  \/ Save(1, TRUE)
  \/ \E reset \in BOOLEAN :
        Notify(1, "actAfterEpoch", [eta |-> 100, batches |-> 3, reset |-> reset])

SpecLoad == InitLoad /\ [][NextLoad]_vars

\* ================================================================== claims
LastCall(step) == Len(log) > 0 /\ log[1].step = step
Returned == aborted = "no"

\* positions of the steps of the last call with the given name and operand
Indices(step, what) ==
  {k \in 2..Len(log) : log[k].step = step /\ log[k].what = what}

\* positions at which the last call entered the update rule
ImplCalls == {k \in 2..Len(log) : log[k].step = "updateImpl"}

\* the place of a step in the order of update(); 0 for arena bookkeeping
Rank(e) ==
  CASE e.step = "CopyCast" /\ e.what = "pm_<-params" -> 1
    [] e.step = "CopyCast" /\ e.what = "gd_<-grads" -> 2
    [] e.step = "costScale" -> 3
    [] e.step = "clip" -> 4
    [] e.step = "updateImpl" -> 5
    [] e.step = "updateAvgParams" -> 6
    [] e.step = "CopyCast" /\ e.what = "params<-pm_" -> 7
    [] e.step = "synchronize" -> 8
    [] OTHER -> 0

RanksDone == {Rank(log[k]) : k \in 2..Len(log)}

\* C1: over any sequence of update() calls the shadow arena of an optimizer is
\* reserved at most once, and a call whose allocation regime (casting or not)
\* differs from the regime of the optimizer's first call does not return
\* normally: it is reported as an invariant violation.
C1_RegimeChangeReported ==
  \A i \in Shards :
    /\ hist[i].reserves <= 1
    /\ (LastCall("update") /\ log[1].a = i /\ log[1].what # hist[i].first)
         => aborted # "no"

\* C2: when a clipper is configured, the gradients an update() call hands to
\* the update rule have been clipped, with and without casting: their norm is
\* at most the clipping norm.
C2_ClippedGradientsReachRule ==
  (LastCall("update") /\ Returned /\ opts[log[1].a].clipper_ # 0)
    => \A k \in ImplCalls : L2Norm(log[k].data) <= opts[log[1].a].clipper_

\* C3: every update() call that returns performs its steps in the order cast,
\* cost-scale reversal, clip, update rule, moving-average blend, cast-back,
\* each configured step once, and synchronizes the backend exactly once, as
\* its last step.
C3_StepOrder ==
  (LastCall("update") /\ Returned) =>
    LET o == opts[log[1].a]
        cast == log[1].what = "cast"
    IN /\ \A j, k \in 2..Len(log) :
            (j < k /\ Rank(log[j]) > 0 /\ Rank(log[k]) > 0) => Rank(log[j]) < Rank(log[k])
       /\ log[Len(log)].step = "synchronize"
       /\ Cardinality({k \in 2..Len(log) : log[k].step = "synchronize"}) = 1
       /\ 5 \in RanksDone
       /\ (2 \in RanksDone) <=> cast
       /\ (3 \in RanksDone) <=> (o.costScale_ # FS)
       /\ (4 \in RanksDone) <=> (o.clipper_ # 0)
       /\ (6 \in RanksDone) <=> o.mvAvg_
       /\ (7 \in RanksDone) <=> cast

C3_Witness ==
  /\ LastCall("update") /\ Returned
  /\ {2, 3, 4, 5, 6, 7, 8} \subseteq RanksDone

\* the step just taken is an update() call on shard i
UpdateStep(i) == nUpdates' = nUpdates + 1 /\ log'[1].a = i

\* the gradients as update() prepares them for the rule of optimizer o
Prepared(o, grads) ==
  [k \in 1..Len(grads) |->
     IF o.costScale_ = FS THEN Convert(o.optimizerType_, grads[k])
     ELSE divF(Convert(o.optimizerType_, grads[k]), o.costScale_)]

\* the master copy after the update rule of o ran on master copy pm with
\* gradients gd
RuleOnMaster(o, h, gd, actualMBSize, refMBWords) ==
  updateImpl([o |-> [o EXCEPT !.pm_ = "PM", !.gd_ = "GD"],
              h |-> [h EXCEPT !["GD"].data = gd],
              log |-> <<>>, abort |-> "no", fill |-> 0],
             actualMBSize, refMBWords).h["PM"]

\* C4: when every update() call of an optimizer requires casting, only the
\* first call converts the parameters into the master copy; a later call
\* does not read the parameter tensor: it applies the update rule to the
\* master copy it already has and overwrites the parameter tensor from it;
\* every call converts the gradients into the cast gradient buffer anew.
C4_Step ==
  \A i \in Shards :
    (UpdateStep(i) /\ aborted' = "no" /\ hist'[i].all = "cast") =>
      LET first == hist[i].calls = 0
          k == CHOOSE k \in 2..Len(log') : log'[k].step = "updateImpl"
          handed == log'[k].data
      IN /\ first <=> (\E j \in 2..Len(log') : Rank(log'[j]) = 1)
         /\ \E j \in 2..Len(log') : Rank(log'[j]) = 2
         /\ handed = Prepared(opts[i], log'[1].data)
         /\ ~first => heap'[i]["PM"] =
                        RuleOnMaster(opts[i], heap[i], handed, log'[k].a, log'[k].b)
         /\ heap'[i]["P16"].data =
              [j \in 1..ShardSize(i) |-> Convert("float16", heap'[i]["PM"].data[j])]

C4_MasterCopyAuthoritative == [][C4_Step]_vars

C4_Witness ==
  /\ LastCall("update") /\ Returned
  /\ hist[log[1].a].all = "cast" /\ hist[log[1].a].calls >= 2
  /\ hist[log[1].a].lastChanged
  /\ \E j \in 1..ShardSize(log[1].a) :
        heap[log[1].a]["P16"].data[j] # Convert("float16", 2004)

\* C5: with reference minibatch size 0, update() hands actual size 1 and
\* reference size 1 to the update rule and actual size 1 to the
\* moving-average blend, whatever size the caller supplied, and never
\* aborts for a missing size.
C5_NeutralSizes ==
  (LastCall("update") /\ opts[log[1].a].refMBWordsParam_ = 0) =>
    /\ aborted # "mbSize"
    /\ ImplCalls # {}
    /\ \A k \in ImplCalls : log[k].a = 1 /\ log[k].b = 1
    /\ opts[log[1].a].mvAvg_ => Indices("updateAvgParams", "avg_") # {}
    /\ \A k \in Indices("updateAvgParams", "avg_") : log[k].b = 1

C5_Witness ==
  /\ LastCall("update") /\ Returned
  /\ opts[log[1].a].refMBWordsParam_ = 0
  /\ log[1].b = mbSizeNotProvided
  /\ opts[log[1].a].mvAvg_

\* C6: with a non-zero reference size, an update() call without a minibatch
\* size aborts before it reserves the arena or changes the optimizer, the
\* master copy, the gradients, the running statistics or the parameters.
C6_Step ==
  \A i \in Shards :
    (UpdateStep(i) /\ opts[i].refMBWordsParam_ # 0 /\ log'[1].b = mbSizeNotProvided) =>
      /\ aborted' = "mbSize"
      /\ opts' = opts
      /\ hist'[i].reserves = hist[i].reserves
      /\ Len(log') = 1
      /\ \A n \in HeapNames :
           heap'[i][n] = IF n = GName(IF log'[1].what = "cast" THEN "float16" ELSE "float32")
                         THEN [heap[i][n] EXCEPT !.data = log'[1].data]
                         ELSE heap[i][n]

C6_MissingSizeAbortsFirst == [][C6_Step]_vars

C6_Witness ==
  /\ LastCall("update") /\ aborted = "mbSize"
  /\ log[1].b = mbSizeNotProvided
  /\ opts[log[1].a].refMBWordsParam_ # 0
  /\ hist[log[1].a].calls >= 2

\* the step just taken is a save() or a load() call
SaveStep == nCheckpoints' = nCheckpoints + 1 /\ log'[1].step = "save"
LoadStep == nCheckpoints' = nCheckpoints + 1 /\ log'[1].step = "load"

IsGather(e) == e.step = "gatherFn"

\* the statistics a call gathered, in the order of its gatherFn calls
Gathered(l) ==
  LET g == SelectSeq(l, IsGather) IN [k \in 1..Len(g) |-> g[k].what]

GatherOrder(alg) == IF alg = "adagrad" THEN <<"gt">> ELSE <<"mt", "vt">>

Stateful(i) == opts[i].alg \in {"adagrad", "adam"}

\* C7: a save() of Adagrad or Adam that returns has invoked the gather
\* callback once per running statistic, in the same order (Adagrad: gt;
\* Adam: mt, then vt), whether the process is the main one or not, and
\* before anything is written; the file is written exactly when
\* isMainProcess holds.
C7_Step ==
  \A self \in Shards :
    (SaveStep /\ log'[1].a = self /\ Stateful(self) /\ aborted' = "no") =>
      LET written == {k \in 2..Len(log') : log'[k].step = "saveItems"}
      IN /\ Gathered(log') = GatherOrder(opts[self].alg)
         /\ \A k \in written : k = Len(log')
         /\ (written # {}) <=> (log'[1].what = "main")
         /\ log'[1].what = "main" =>
              /\ file'.exists
              /\ Len(file'.items) = IF opts[self].alg = "adagrad" THEN 1 ELSE 3
         /\ log'[1].what # "main" => file' = file

C7_GatherOnEveryProcess == [][C7_Step]_vars

C7_Witness ==
  /\ LastCall("save") /\ Returned
  /\ log[1].what = "other"
  /\ opts[log[1].a].alg = "adam"
  /\ Gathered(log) = <<"mt", "vt">>
  /\ \A i \in Shards : ~IsNull(opts[i].mt_)

\* the running state the last save() wrote was allocated on every shard
SavedAllocated(alg) ==
  \A i \in Shards :
    IF alg = "adagrad" THEN saved.gt[i] # <<>>
    ELSE saved.mt[i] # <<>> /\ saved.vt[i] # <<>>

\* the last call, a load(), scattered into optimizers without statistics
LoadedIntoFresh(alg) ==
  /\ LastCall("load") /\ Returned
  /\ \E k \in Indices("scatterFn", IF alg = "adagrad" THEN "gt" ELSE "mt") :
        log[k].a = NumShards

\* C8: after save() of Adagrad or Adam optimizers holding running state and
\* load() of that file into freshly constructed optimizers of the same
\* kind and shard layout, every shard has the saved statistics, and for
\* Adam the optimizer load() was called on has the saved denominators.
C8_RoundTrip ==
  \A self \in Shards :
    LET alg == opts[self].alg
    IN (Stateful(self) /\ LoadedIntoFresh(alg) /\ log[1].a = self
        /\ saved.valid /\ SavedAllocated(alg)) =>
         IF alg = "adagrad"
         THEN \A i \in Shards : opts[i].gt_.data = saved.gt[i]
         ELSE /\ \A i \in Shards : /\ opts[i].mt_.data = saved.mt[i]
                                   /\ opts[i].vt_.data = saved.vt[i]
              /\ opts[self].denom1_ = saved.denom1
              /\ opts[self].denom2_ = saved.denom2

C8_Witness ==
  /\ opts[1].alg = "adam"
  /\ LoadedIntoFresh("adam")
  /\ saved.valid /\ SavedAllocated("adam")
  /\ saved.denom1 # 0 /\ saved.denom2 # 0
  /\ \A i \in Shards : \E k \in 1..Len(saved.mt[i]) :
        saved.mt[i][k] # 0 /\ saved.vt[i][k] # 0 /\ saved.mt[i][k] # saved.vt[i][k]

\* C9: load() on a path that does not exist, called with as many backends
\* as optimizers, returns without invoking a scatter callback and leaves
\* every optimizer (statistics, allocators, denominators) as it was.
C9_Step ==
  (LoadStep /\ ~file.exists /\ log'[1].b = NumShards) =>
    /\ aborted' = "no"
    /\ opts' = opts
    /\ Len(log') = 1

C9_MissingFileIsNoOp == [][C9_Step]_vars

C9_Witness ==
  /\ LastCall("load") /\ log[1].what = "absent" /\ log[1].b = NumShards
  /\ Stateful(1)
  /\ \E i \in Shards : ~IsNull(opts[i].gt_) \/ ~IsNull(opts[i].mt_)

HasItem(f, name) == \E k \in 1..Len(f.items) : f.items[k].name = name

LacksStatistic(f, alg) ==
  IF alg = "adagrad" THEN ~HasItem(f, "adagrad_gt")
  ELSE ~HasItem(f, "adam_mt") \/ ~HasItem(f, "adam_vt")

\* C10: load() of Adagrad or Adam on an existing file that lacks a
\* running-statistic item (Adagrad: gt; Adam: first or second moment)
\* returns after a warning, without a scatter callback, and leaves every
\* optimizer as it was: for Adam both moments and the denominators, also
\* when the file holds the other items.
C10_Step ==
  \A self \in Shards :
    (LoadStep /\ log'[1].a = self /\ log'[1].b = NumShards /\ Stateful(self)
     /\ file.exists /\ LacksStatistic(file, opts[self].alg)) =>
      /\ aborted' = "no"
      /\ opts' = opts
      /\ Len(log') = 2 /\ log'[2].step = "warn"

C10_MissingItemIsWarning == [][C10_Step]_vars

C10_Witness ==
  /\ LastCall("load") /\ Returned
  /\ Len(log) = 2 /\ log[2].step = "warn"
  /\ opts[log[1].a].alg = "adam"
  /\ HasItem(file, "adam_mt") /\ HasItem(file, "adam_denoms") /\ ~HasItem(file, "adam_vt")
  /\ ~IsNull(opts[log[1].a].mt_) /\ opts[log[1].a].denom1_ # 0

\* the last call, a load() on optimizer self, scattered the vectors it read
Scattered(self) ==
  /\ LastCall("load") /\ Returned /\ log[1].a = self
  /\ \E k \in 2..Len(log) : log[k].step = "scatterFn"

\* C11: after Adam load() of a file that holds both moment items but no
\* denominators item, denom1 and denom2 of the loading optimizer are zero.
C11_LegacyFileZeroDenoms ==
  \A self \in Shards :
    (opts[self].alg = "adam" /\ Scattered(self)
     /\ HasItem(file, "adam_mt") /\ HasItem(file, "adam_vt")
     /\ ~HasItem(file, "adam_denoms")) =>
      opts[self].denom1_ = 0 /\ opts[self].denom2_ = 0

\* C14: load() of Adagrad or Adam called with a number of backends other
\* than the number of optimizers aborts without touching an optimizer,
\* also when the checkpoint file is absent.
C14_Step ==
  \A self \in Shards :
    (LoadStep /\ log'[1].a = self /\ Stateful(self) /\ log'[1].b # NumShards) =>
      /\ aborted' = "opts-backends"
      /\ opts' = opts
      /\ Len(log') = 1

C14_BackendCountCheckedFirst == [][C14_Step]_vars

C14_Witness ==
  /\ LastCall("load") /\ aborted = "opts-backends"
  /\ log[1].what = "absent" /\ log[1].b # NumShards
  /\ opts[log[1].a].alg = "adam"

\* C18: an Adagrad update() aborts in its update rule exactly when a
\* reference size R other than 0 is configured and the caller supplies a
\* size other than R; without a reference size it returns whatever size
\* the caller supplies, and with one it returns only for the size R.
C18_AdagradSizeMismatchAborts ==
  (LastCall("update") /\ opts[log[1].a].alg = "adagrad") =>
    LET R == opts[log[1].a].refMBWordsParam_
        supplied == log[1].b
    IN /\ (aborted = "adagrad-mbsize")
            <=> (R # 0 /\ supplied # mbSizeNotProvided /\ supplied # R)
       /\ (R = 0) => Returned
       /\ (R # 0) => (Returned <=> supplied = R)

C18_Witness ==
  /\ LastCall("update") /\ aborted = "adagrad-mbsize"
  /\ opts[log[1].a].alg = "adagrad"
  /\ opts[log[1].a].refMBWordsParam_ = 2 /\ log[1].b = 1
  /\ hist[log[1].a].calls >= 2

\* the step just taken delivered a hook to the optimizer of shard i
HookStep(i) == nHooks' = nHooks + 1 /\ log'[1].a = i

\* the hooks that act on the reset flag
ResettingHooks == {"actAfterEpoch", "actAfterBatches", "actAfterStalled"}

\* a tensor with every element zero, a null tensor left null
Zeroed(t) == [t EXCEPT !.data = [k \in 1..Len(t.data) |-> 0]]

\* optimizer o after the hook took the learning rate eta (and, for
\* actAfterBatches, the batch count) and its statistics were reset
AfterReset(o, name, eta, batches) ==
  [o EXCEPT !.eta_ = eta,
            !.batchesSeen_ = IF name = "actAfterBatches" THEN batches ELSE @,
            !.gt_ = IF o.alg = "adagrad" THEN Zeroed(@) ELSE @,
            !.mt_ = IF o.alg = "adam" THEN Zeroed(@) ELSE @,
            !.vt_ = IF o.alg = "adam" THEN Zeroed(@) ELSE @,
            !.denom1_ = IF o.alg = "adam" THEN 0 ELSE @,
            !.denom2_ = IF o.alg = "adam" THEN 0 ELSE @]

\* C15: resetStats(), run by a hook that was delivered the reset flag, sets
\* every allocated running-statistic tensor to zero (Adagrad gt; Adam mt and
\* vt) and Adam's denominators to zero; it leaves unallocated statistics
\* unallocated and the allocators as they were, and changes neither the
\* parameters, the master copy, the moving-average accumulator, the
\* learning rate the hook has set nor the batches-seen counter.
C15_Step ==
  \A i \in Shards :
    (HookStep(i) /\ log'[1].step \in ResettingHooks /\ log'[1].what = "reset") =>
      /\ opts'[i] = AfterReset(opts[i], log'[1].step, log'[1].b, log'[1].data[1])
      /\ \A j \in Shards : j # i => opts'[j] = opts[j]
      /\ heap' = heap
      /\ aborted' = "no"

C15_ResetStatsFrame == [][C15_Step]_vars

C15_Witness ==
  /\ Len(log) > 0 /\ log[1].step \in ResettingHooks /\ log[1].what = "reset"
  /\ opts[log[1].a].alg = "adam"
  /\ ~IsNull(opts[log[1].a].mt_) /\ StatsZero(opts[log[1].a])
  /\ ~IsNull(opts[log[1].a].avg_) /\ opts[log[1].a].pm_ = "PM"
  /\ hist[log[1].a].calls >= 1

\* C16 as claimed: each of the hooks init, after-epoch, after-batches and
\* after-stalled sets the learning rate from the delivered state and, when
\* the delivered reset flag is set, resets the statistics.
C16_Original_Step ==
  \A i \in Shards :
    (HookStep(i) /\ log'[1].step \in ResettingHooks \cup {"init"}) =>
      /\ opts'[i].eta_ = log'[1].b
      /\ log'[1].what = "reset" => StatsZero(opts'[i])

C16_Original == [][C16_Original_Step]_vars

\* C16: each of the hooks init, after-epoch, after-batches and after-stalled
\* sets the learning rate from the delivered state; after-epoch,
\* after-batches and after-stalled reset the statistics whenever the
\* delivered reset flag is set and leave them alone otherwise; init leaves
\* them alone whatever the flag is.
C16_Step ==
  \A i \in Shards :
    (HookStep(i) /\ log'[1].step \in ResettingHooks \cup {"init"}) =>
      LET name == log'[1].step
          kept == [opts[i] EXCEPT
                     !.eta_ = log'[1].b,
                     !.batchesSeen_ = IF name = "actAfterBatches"
                                      THEN log'[1].data[1] ELSE @]
      IN /\ opts'[i].eta_ = log'[1].b
         /\ (name \in ResettingHooks /\ log'[1].what = "reset") => StatsZero(opts'[i])
         /\ (name = "init" \/ log'[1].what = "keep") => opts'[i] = kept

C16_HooksSetRateAndReset == [][C16_Step]_vars

C16_Witness ==
  /\ LastCall("actAfterStalled") /\ log[1].what = "reset"
  /\ opts[log[1].a].alg = "adagrad"
  /\ ~IsNull(opts[log[1].a].gt_) /\ StatsZero(opts[log[1].a])
  /\ opts[log[1].a].eta_ = 50
  /\ hist[log[1].a].calls >= 1

\* C19: an Adam update() whose denominators started at 0 leaves both
\* denominators in (0, 1] and not below what they were; the first update
\* after the start or a reset lowers every parameter by about the learning
\* rate, the moments having been divided by the new, non-zero denominators;
\* with beta1 = 0.9 the first three values of denom1 are 0.1, 0.19, 0.271.
C19_Step ==
  (UpdateStep(1) /\ opts[1].alg = "adam" /\ aborted' = "no") =>
    LET o == opts[1]
        o2 == opts'[1]
        k == hist'[1].k
    IN /\ o2.denom1_ > 0 /\ o2.denom1_ <= DS /\ o2.denom1_ >= o.denom1_
       /\ o2.denom2_ > 0 /\ o2.denom2_ <= DS /\ o2.denom2_ >= o.denom2_
       /\ (o.beta1_ = 900 /\ k \in 1..3) => o2.denom1_ = <<1000, 1900, 2710>>[k]
       /\ k = 1 => \A j \in 1..ShardSize(1) :
                     heap[1]["P32"].data[j] - heap'[1]["P32"].data[j]
                       \in (o.eta_ - 2)..o.eta_

C19_DenominatorsRecursion == [][C19_Step]_vars

C19_Witness ==
  /\ LastCall("update") /\ Returned
  /\ opts[1].alg = "adam" /\ opts[1].beta1_ = 900
  /\ hist[1].k = 3 /\ opts[1].denom1_ = 2710

\* the square of the gradient of element j when update() was called with g
GradSquare(g, j) == mulF(g + 1000 * (j - 1), g + 1000 * (j - 1))

\* C20: after k Adagrad updates with the same gradient g since allocation or
\* the last reset every element of gt is k * g^2 (one update with g = 2
\* gives 4); gt does not decrease in an update, and of two updates in a row
\* with the same gradient the second lowers the parameter by no more than
\* the first.
C20_Sum ==
  (opts[1].alg = "adagrad" /\ ~IsNull(opts[1].gt_)) =>
    /\ hist[1].k = 0 => \A j \in 1..ShardSize(1) : opts[1].gt_.data[j] = 0
    /\ hist[1].g > 0 => \A j \in 1..ShardSize(1) :
                           opts[1].gt_.data[j] = hist[1].k * GradSquare(hist[1].g, j)

C20_Step ==
  (UpdateStep(1) /\ opts[1].alg = "adagrad" /\ aborted' = "no") =>
    /\ ~IsNull(opts[1].gt_) =>
         \A j \in 1..ShardSize(1) : opts'[1].gt_.data[j] >= opts[1].gt_.data[j]
    /\ (LastCall("update") /\ hist[1].k >= 1 /\ hist'[1].g > 0) =>
         hist'[1].step <= hist[1].step

C20_RunningSum == [][C20_Sum /\ C20_Sum' /\ C20_Step]_vars

C20_Witness ==
  /\ LastCall("update") /\ Returned
  /\ opts[1].alg = "adagrad" /\ nHooks >= 1
  /\ hist[1].k = 2 /\ hist[1].g = 2000
  /\ opts[1].gt_.data[1] = 8000
  /\ hist[1].step > 0

\* the number of floats the last item of that name in file f holds, 0 for none
ItemLength(f, name) == Len(LoadedFloats(f.items, name))

\* C12: Adam load() of a file whose first and second moment have different
\* non-zero lengths aborts before any scatter callback runs: no optimizer
\* is modified and nothing is allocated.
C12_Step ==
  \A self \in Shards :
    (LoadStep /\ log'[1].a = self /\ opts[self].alg = "adam"
     /\ log'[1].b = NumShards /\ file.exists
     /\ ItemLength(file, "adam_mt") > 0 /\ ItemLength(file, "adam_vt") > 0
     /\ ItemLength(file, "adam_mt") # ItemLength(file, "adam_vt")) =>
      /\ aborted' = "mt-vt-sizes"
      /\ opts' = opts
      /\ \A k \in 1..Len(log') : log'[k].step # "scatterFn"

C12_MomentLengthsCompared == [][C12_Step]_vars

C12_Witness ==
  /\ LastCall("load") /\ aborted = "mt-vt-sizes"
  /\ ItemLength(file, "adam_mt") = ItemLength(file, "adam_vt") + 1
  /\ ~IsNull(opts[1].mt_) /\ IsNull(opts[NumShards].mt_)

\* the statistic of optimizer o that a scatter of the given operand fills
StatNamed(o, what) ==
  CASE what = "gt" -> o.gt_
    [] what = "mt" -> o.mt_
    [] what = "vt" -> o.vt_

RECURSIVE TotalSize(_, _)
\* the element counts of that statistic, summed over the first n shards
TotalSize(what, n) ==
  IF n = 0 THEN 0 ELSE TotalSize(what, n - 1) + size(StatNamed(opts[n], what))

\* C13: when load() has scattered a flat vector and returned, the length of
\* the vector is the sum of the element counts of the shards' statistic
\* tensors and every shard's slice has the length of its tensor: a vector
\* of another length is not written into the statistics.
C13_ScatterMatchesShards ==
  (LastCall("load") /\ Returned) =>
    \A k \in 2..Len(log) :
      log[k].step = "scatterFn" =>
        /\ Len(log[k].data) = TotalSize(log[k].what, NumShards)
        /\ \A i \in Shards :
              Len(SliceOf(log[k].data, i)) = size(StatNamed(opts[i], log[k].what))

\* the statistics of optimizer o, and what allocation fixed of a tensor
Stats(o) == <<o.gt_, o.mt_, o.vt_>>
Extent(t) == <<t.type, t.shape, t.memory>>

ResetStep(i) == HookStep(i) /\ log'[1].what = "reset"

\* C17 as stated: the statistics are unallocated until the first update();
\* once allocated they have the element count of the parameter tensor, are
\* changed only by update() and resetStats(), and are never resized or
\* reallocated.
C17_Original_Step ==
  \A i \in Shards : \A s \in 1..3 :
    LET t == Stats(opts[i])[s]
        t2 == Stats(opts'[i])[s]
    IN /\ hist'[i].calls = 0 => IsNull(t2)
       /\ ~IsNull(t2) => size(t2) = ShardSize(i)
       /\ t2 # t => UpdateStep(i) \/ ResetStep(i)
       /\ ~IsNull(t) => Extent(t2) = Extent(t)

C17_Original == [][C17_Original_Step]_vars

\* C17: the statistics of an optimizer are unallocated until its first
\* update() or a load() that scatters into it; statistics allocated by
\* update() have the element count of the parameter tensor; statistics are
\* changed only by update(), resetStats() and load(), and once allocated
\* they are never resized or reallocated.
C17_Step ==
  \A i \in Shards : \A s \in 1..3 :
    LET t == Stats(opts[i])[s]
        t2 == Stats(opts'[i])[s]
    IN /\ (hist[i].calls = 0 /\ nCheckpoints = 0) => IsNull(t)
       /\ (IsNull(t) /\ ~IsNull(t2)) => UpdateStep(i) \/ LoadStep
       /\ (IsNull(t) /\ ~IsNull(t2) /\ UpdateStep(i)) =>
             size(t2) = size(heap[i][PName("float32")])
       /\ t2 # t => UpdateStep(i) \/ ResetStep(i) \/ LoadStep
       /\ ~IsNull(t) => Extent(t2) = Extent(t)

C17_StatisticsLifetime == [][C17_Step]_vars

C17_Witness ==
  /\ LastCall("load") /\ Returned
  /\ hist[1].calls = 0 /\ nUpdates = 0
  /\ opts[1].alg = "adagrad" /\ ~IsNull(opts[1].gt_)
  /\ size(opts[1].gt_) # ShardSize(1)

\* C21: an update() of an optimizer with reference size R > 0, called with
\* actual size R, leaves the parameters, the running statistics and the
\* denominators that the same update() leaves when the optimizer has
\* auto-adjustment disabled (reference size 0), for Sgd, Adagrad and Adam.
C21_Step ==
  (UpdateStep(1) /\ opts[1].refMBWordsParam_ > 0
   /\ log'[1].b = opts[1].refMBWordsParam_) =>
    \E fill \in FreshMemory(opts[1]) \cup BeyondEnd(opts[1], ShardSize(1)) :
      LET disabled == [opts[1] EXCEPT !.refMBWordsParam_ = 0]
          h0 == [heap[1] EXCEPT !["G32"].data = log'[1].data]
          m0 == update(disabled, h0, "P32", "G32", log'[1].b, fill)
      IN /\ aborted' = m0.abort
         /\ heap'[1]["P32"].data = m0.h["P32"].data
         /\ Stats(opts'[1]) = Stats(m0.o)
         /\ opts'[1].denom1_ = m0.o.denom1_ /\ opts'[1].denom2_ = m0.o.denom2_

C21_AutoAdjustIdentity == [][C21_Step]_vars

\* position k of the hyperparameter vector, or the default when it is missing
Positional(params, k, default) == IF Len(params) >= k THEN params[k] ELSE default

BuildStep == Len(log') > 0 /\ log'[1].step = "Optimizer" /\ log' # log

\* C22: Optimizer(options) builds one optimizer of the configured kind (sgd,
\* adagrad, adam) and aborts on any other name; Adagrad takes eps from
\* position 1 of the hyperparameter vector, Adam takes beta1, beta2, eps and
\* the weight decay from positions 1 to 4, Sgd takes nothing; a missing
\* position keeps its default and entries beyond the known positions change
\* nothing.
C22_Step ==
  BuildStep =>
    LET name == log'[1].what
        params == log'[1].data
        i == log'[1].a
        conf == [alg |-> name, eta |-> 100, refMBWords |-> 0, costScale |-> FS,
                 clipNorm |-> 0, mvAvg |-> FALSE]
        default == NewOptimizer(name, conf)
    IN /\ \A j \in Shards : j # i => opts'[j] = opts[j]
       /\ name \notin Algs => aborted' # "no" /\ opts' = opts
       /\ name \in Algs => aborted' = "no"
       /\ name = "sgd" => opts'[i] = default
       /\ name = "adagrad" =>
            opts'[i] = [default EXCEPT !.eps_ = Positional(params, 1, default.eps_)]
       /\ name = "adam" =>
            opts'[i] = [default EXCEPT
                          !.beta1_ = Positional(params, 1, default.beta1_),
                          !.beta2_ = Positional(params, 2, default.beta2_),
                          !.eps_ = Positional(params, 3, default.eps_),
                          !.w_ = Positional(params, 4, default.w_)]

Tensors ==
  {heap[i][n] : i \in Shards, n \in HeapNames}
    \cup {opts[i].avg_ : i \in Shards} \cup {opts[i].gt_ : i \in Shards}
    \cup {opts[i].mt_ : i \in Shards} \cup {opts[i].vt_ : i \in Shards}
    \cup {view}

\* C23: for every tensor, also one that subtensor(offset, size) returned for
\* a tensor of any element type, the element count times the byte size of
\* the declared element type is the byte size of its memory.
C23_ElementsFillMemory ==
  \A t \in Tensors : ~IsNull(t) => size(t) * sizeOf(t.type) = t.memory

\* the tasks that were enqueued and have not finished
Unfinished ==
  {loop.queue[k] : k \in 1..Len(loop.queue)}
    \cup {loop.task[w] : w \in {v \in Workers : loop.task[v] # NoTask}}

\* C24: every worker thread creates its graph and its optimizer at most
\* once and uses its own optimizer, and no two worker threads have their
\* graph and optimizer on the same device.
C24_OneOptimizerPerDevice ==
  loop.pc # "none" =>
    /\ \A w \in Workers : loop.made[w] <= 1 /\ loop.opt[w] \in {0, w}
    /\ \A v, w \in Workers :
          (v # w /\ loop.graph[v] # 0 /\ loop.graph[w] # 0) =>
            loop.graph[v] # loop.graph[w]

\* C29: a task enqueued in an epoch finishes before the iteration of that
\* epoch ends (while its accumulators exist, before epochs is advanced and
\* the stop condition is tested again), and the final save runs after all
\* tasks have finished.
C29_TasksFinishInTheirEpoch ==
  loop.pc # "none" =>
    /\ \A t \in Unfinished : t.epoch = loop.scope
    /\ loop.saved => Unfinished = {}

\* the denominators that the last adam_denoms item of file f holds
LoadedDenoms(f) == BytesToDoubles(LastItem(f.items, "adam_denoms", <<>>)[1].bytes, 2)

\* C25: after Adam load() of a file with the denominators item has scattered
\* the moments to the optimizers of all shards, every one of these
\* optimizers has the loaded denom1 and denom2, not only the one load() was
\* called on.
C25_AllShardsHoldDenoms ==
  \A self \in Shards :
    (opts[self].alg = "adam" /\ Scattered(self) /\ HasItem(file, "adam_denoms")) =>
      \A i \in Shards : /\ opts[i].denom1_ = LoadedDenoms(file)[1]
                         /\ opts[i].denom2_ = LoadedDenoms(file)[2]

\* C26: the first moment of an Adam optimizer is allocated if and only if
\* its second moment is, and the two have the same element count, after any
\* sequence of update(), load() and resetStats() calls.
C26_MomentsAllocatedTogether ==
  \A i \in Shards :
    opts[i].alg = "adam" =>
      /\ IsNull(opts[i].mt_) <=> IsNull(opts[i].vt_)
      /\ size(opts[i].mt_) = size(opts[i].vt_)

C26_Witness ==
  /\ opts[1].alg = "adam" /\ LastCall("load") /\ Returned
  /\ nUpdates >= 1 /\ nHooks >= 1
  /\ ~IsNull(opts[1].mt_) /\ size(opts[1].mt_) = ShardSize(1)
  /\ hist[NumShards].calls = 0 /\ ~IsNull(opts[NumShards].vt_)
  /\ size(opts[NumShards].vt_) # ShardSize(NumShards)

\* the bytes of the tensors that optimizer i has carved out of its shadow
\* arena: the accumulator, the master copy and the cast gradient buffer
\* (the two buffers keep their memory when pm_ and gd_ point elsewhere)
Carved(i) == opts[i].avg_.memory + heap[i]["PM"].memory + heap[i]["GD"].memory

\* C27: over any sequence of update() calls, also when the need for casting
\* changes between calls, the tensors carved out of the shadow arena never
\* take more than the arena has reserved, and a reservation once made is
\* never changed.
C27_Fits ==
  \A i \in Shards :
    /\ Carved(i) <= opts[i].optAlloc_.reserved
    /\ opts[i].optAlloc_.used = Carved(i)
    /\ hist[i].reserves <= 1

C27_Step ==
  \A i \in Shards :
    opts[i].optAlloc_.live =>
      /\ opts'[i].optAlloc_.live
      /\ opts'[i].optAlloc_.reserved = opts[i].optAlloc_.reserved

C27_ArenaNeverOutgrown == [][C27_Fits /\ C27_Fits' /\ C27_Step]_vars

C27_Witness ==
  /\ LastCall("update") /\ Returned
  /\ hist[1].all = "mixed" /\ hist[1].first = "cast"
  /\ opts[1].mvAvg_ /\ opts[1].pm_ # "PM"
  /\ Carved(1) = opts[1].optAlloc_.reserved
  /\ Carved(1) = 3 * ShardSize(1) * sizeOf("float32")

\* C28: save() of Adagrad or Adam optimizers whose statistics were never
\* allocated reads no unallocated statistic: every gather of the call found
\* the statistic of every shard allocated, and the call did not die on a
\* null pointer.
C28_GatherReadsAllocatedOnly ==
  LastCall("save") =>
    /\ aborted # "nullptr"
    /\ \A k \in 2..Len(log) : log[k].step = "gatherFn" => log[k].a = 0

====
